---- MODULE Spec2Model ----
(***************************************************************************)
(* SIMD-accelerated FIX market data parser: the two delimiter scanners,   *)
(* the numeric converters, the field tokenizer, the record builder and    *)
(* the three parse entry points (parse_scalar, parse_simd, parse_auto).   *)
(*                                                                         *)
(* A byte is a one-character string, a text (std::string / string_view    *)
(* contents) is a sequence of bytes.  Offsets are the 0-based offsets of   *)
(* the C++ code: the byte at offset i of data is data[i + 1].              *)
(***************************************************************************)
EXTENDS Integers, Sequences, FiniteSets, TLC

VARIABLES
    message,            \* the caller's input buffer
    cpu,                \* what CPUID / XGETBV report on this machine
    to_chars,           \* build: is __cpp_lib_to_chars defined (simd_utils.cpp:138)
    avx512_available,   \* the function-local static of parse_auto
    scalar_result,      \* what parse_scalar(message) returned
    simd_result,        \* what parse_simd(message) returned
    auto_result,        \* what parse_auto(message) returned
    delimiter,          \* the delimiter byte given to the scanners
    scalar_positions,   \* what find_delimiters_scalar(message, delimiter) returned
    simd_positions,     \* what find_delimiters_simd(message, delimiter) returned
    call,               \* a call of populate_message, parse_int or parse_double
    hw_queries,         \* how often has_avx512_support has run in this process
    support_results,    \* what the direct calls of has_avx512_support returned
    auto_routes,        \* the scanner each parse_auto call went through
    pc,                 \* where each thread is in its parse_auto call
    observed,           \* the values of avx512_available each thread has read
    guard,              \* the initialization guard of the static of parse_auto
    frames              \* the stack frame of each thread's parse call

\* the state of the unit calls, of the detector and of the threads
unit_vars == << call >>

detect_vars == << hw_queries, support_results, auto_routes >>

thread_vars == << pc, observed, guard, frames >>

vars == << message, cpu, to_chars, avx512_available, scalar_result, simd_result,
           auto_result, delimiter, scalar_positions, simd_positions,
           unit_vars, detect_vars, thread_vars >>

(***************************************************************************)
(* Bounds of the model.                                                    *)
(***************************************************************************)
\* a scanner input is head \o filler \o tail with at most MaxFill filler bytes
MaxFill == 130
\* a parser input is the concatenation of at most MaxPieces pieces
MaxPieces == 2
\* the length in bytes of the long (padding) field among the pieces
PadLen == 64
\* the number of threads that call parse_auto
MaxThreads == 3
\* how many calls of has_avx512_support and of parse_auto a process makes
MaxCalls == 2

(***************************************************************************)
(* Bytes and string views.                                                 *)
(***************************************************************************)
\* data[i] of a string_view, i a 0-based offset
At(data, i) == data[i + 1]

\* std::string_view::substr(pos, count) on the contents
Substr(data, pos, count) == SubSeq(data, pos + 1, pos + count)

Min(S) == CHOOSE x \in S : \A y \in S : x <= y

Max(S) == CHOOSE x \in S : \A y \in S : y <= x

(***************************************************************************)
(* The machine: what has_avx512_support reads, and whether an AVX-512      *)
(* instruction executes or raises #UD (SIGILL).                            *)
(***************************************************************************)
\* a machine with AVX-512F/BW enabled by the OS
Avx512Machine ==
    [ cpuid1 |-> TRUE, osxsave |-> TRUE, cpuid7 |-> TRUE,
      avx512f |-> TRUE, avx512bw |-> TRUE, xcr0_e6 |-> TRUE ]

\* an AVX2 machine: OSXSAVE and leaf 7 present, no AVX-512, XCR0 = 0x07
Avx2Machine ==
    [ cpuid1 |-> TRUE, osxsave |-> TRUE, cpuid7 |-> TRUE,
      avx512f |-> FALSE, avx512bw |-> FALSE, xcr0_e6 |-> FALSE ]

Machines == { Avx512Machine, Avx2Machine }

\* every combination of what CPUID leaf 1, CPUID leaf 7 and XCR0 can report
AllMachines ==
    [ cpuid1 : BOOLEAN, osxsave : BOOLEAN, cpuid7 : BOOLEAN,
      avx512f : BOOLEAN, avx512bw : BOOLEAN, xcr0_e6 : BOOLEAN ]

\* the instructions has_avx512_support executes
CpuidLeaf1 == "cpuid(1)"

CpuidLeaf7 == "cpuid(7,0)"

Xgetbv == "xgetbv"

\* a slip: has_avx512_support without the AVX512BW bit in its result
has_avx512_support_run_without_bw(c) ==
    IF ~c.cpuid1 THEN [ value |-> FALSE, executed |-> << CpuidLeaf1 >> ]
    ELSE IF ~c.osxsave THEN [ value |-> FALSE, executed |-> << CpuidLeaf1 >> ]
    ELSE IF ~c.cpuid7
         THEN [ value |-> FALSE, executed |-> << CpuidLeaf1, CpuidLeaf7 >> ]
    ELSE [ value |-> c.avx512f /\ c.xcr0_e6,
           executed |-> << CpuidLeaf1, CpuidLeaf7, Xgetbv >> ]

\* one run of has_avx512_support(): the early returns in source order, the
\* value returned and the instructions executed on the way
has_avx512_support_run(c) ==
    IF ~c.cpuid1 THEN [ value |-> FALSE, executed |-> << CpuidLeaf1 >> ]
    ELSE IF ~c.osxsave THEN [ value |-> FALSE, executed |-> << CpuidLeaf1 >> ]
    ELSE IF ~c.cpuid7
         THEN [ value |-> FALSE, executed |-> << CpuidLeaf1, CpuidLeaf7 >> ]
    ELSE [ value |-> c.avx512f /\ c.avx512bw /\ c.xcr0_e6,
           executed |-> << CpuidLeaf1, CpuidLeaf7, Xgetbv >> ]

\* bool has_avx512_support(): the value returned
has_avx512_support(c) == has_avx512_support_run(c).value

\* the zmm / mask instructions of find_delimiters_simd (vpbroadcastb,
\* vmovdqu64, vpcmpeqb k, zmm, zmm) execute only with AVX-512F and BW
\* present and the ZMM/opmask state enabled in XCR0; otherwise they raise #UD
avx512_executes(c) ==
    c.cpuid1 /\ c.osxsave /\ c.cpuid7 /\ c.avx512f /\ c.avx512bw /\ c.xcr0_e6

(***************************************************************************)
(* The delimiter scanners.                                                 *)
(***************************************************************************)
SIMD_WIDTH == 64

\* for (; i < data.size(); ++i) if (data[i] == delimiter) positions.push_back(i)
\* : the offsets i, i + 1, .. , size - 1, visited in this order, each appended
\* to positions when the byte there is the delimiter
scalar_loop(data, delim, i, positions) ==
    positions \o SelectSeq([ k \in 1 .. Len(data) - i |-> i + k - 1 ],
                           LAMBDA j : At(data, j) = delim)

\* a slip: the loop index starts at 1
find_delimiters_scalar_from_one(data, delim) == scalar_loop(data, delim, 1, << >>)

find_delimiters_scalar(data, delim) == scalar_loop(data, delim, 0, << >>)

\* _mm512_cmpeq_epi8_mask of the 64 bytes loaded at ptr + pos against the
\* broadcast delimiter: the 64-bit mask, as the set of its set bit positions
cmpeq_epi8_mask(data, pos, delim) ==
    { b \in 0 .. SIMD_WIDTH - 1 : At(data, pos + b) = delim }

\* a slip: __builtin_clzll where __builtin_ctzll is meant
ctzll_as_clzll(match_mask) == (SIMD_WIDTH - 1) - Max(match_mask)

\* __builtin_ctzll(match_mask), match_mask != 0
ctzll(match_mask) == Min(match_mask)

\* a slip: the highest set bit cleared instead of the lowest
clear_highest(match_mask) == match_mask \ { Max(match_mask) }

\* match_mask & (match_mask - 1)
clear_lowest(match_mask) == match_mask \ { Min(match_mask) }

\* one test of  while (match_mask != 0)  and, when it passes, one run of the
\* body: push_back(pos + ctz), then the lowest set bit cleared
mask_iteration(st) ==
    IF st.match_mask # {}
    THEN [ match_mask |-> clear_lowest(st.match_mask),
           pos        |-> st.pos,
           positions  |-> Append(st.positions, st.pos + ctzll(st.match_mask)) ]
    ELSE st

\* eight iterations of the mask loop in a row, each started from the state
\* the one before left
mask_iterations8(st) ==
    CHOOSE s8 \in
        { mask_iteration(s7) : s7 \in
        { mask_iteration(s6) : s6 \in
        { mask_iteration(s5) : s5 \in
        { mask_iteration(s4) : s4 \in
        { mask_iteration(s3) : s3 \in
        { mask_iteration(s2) : s2 \in
        { mask_iteration(s1) : s1 \in
        { mask_iteration(st) } } } } } } } } : TRUE

RECURSIVE mask_loop(_, _, _)
\* while (match_mask != 0) { push_back(pos + ctz); clear the lowest set bit }
\* taken eight iterations at a time, until the mask is empty
mask_loop(match_mask, pos, positions) ==
    IF match_mask # {}
    THEN CHOOSE p \in
             { mask_loop(st.match_mask, pos, st.positions) : st \in
                 { mask_iterations8([ match_mask |-> match_mask, pos |-> pos,
                                      positions |-> positions ]) } } : TRUE
    ELSE positions

\* a slip: the last full chunk left to the tail loop
simd_end_of_one_chunk_less(size) ==
    IF size >= SIMD_WIDTH THEN size - (size % SIMD_WIDTH) - SIMD_WIDTH ELSE 0

\* const size_t simd_end = size - (size % SIMD_WIDTH)
simd_end_of(size) == size - (size % SIMD_WIDTH)

RECURSIVE chunk_loads(_, _, _)
\* the offsets pos at which  for (; pos < simd_end; pos += SIMD_WIDTH)  loads
\* 64 bytes from ptr + pos (_mm512_loadu_si512), in the order of the loads
chunk_loads(simd_end, pos, loads) ==
    IF pos < simd_end
    THEN chunk_loads(simd_end, pos + SIMD_WIDTH, Append(loads, pos))
    ELSE loads

\* the offsets at which  for (; pos < size; ++pos)  reads ptr[pos], in order
tail_reads(size, pos) == [ k \in 1 .. size - pos |-> pos + k - 1 ]

RECURSIVE chunk_loop(_, _, _, _, _)
\* for (; pos < simd_end; pos += SIMD_WIDTH): returns << pos, positions >>
chunk_loop(data, delim, simd_end, pos, positions) ==
    IF pos < simd_end
    THEN chunk_loop(data, delim, simd_end, pos + SIMD_WIDTH,
                    mask_loop(cmpeq_epi8_mask(data, pos, delim), pos, positions))
    ELSE << pos, positions >>

RECURSIVE chunk_trace(_, _, _, _, _)
\* the chunks of the chunk loop in the order visited: for each its base
\* offset, its match mask and the positions its mask loop appended; the
\* body of the mask loop has one push_back, so the loop made as many
\* iterations as it appended positions
chunk_trace(data, delim, simd_end, pos, trace) ==
    IF pos < simd_end
    THEN chunk_trace(data, delim, simd_end, pos + SIMD_WIDTH,
             Append(trace,
                 [ pos        |-> pos,
                   mask       |-> cmpeq_epi8_mask(data, pos, delim),
                   appended   |-> mask_loop(cmpeq_epi8_mask(data, pos, delim), pos, << >>) ]))
    ELSE trace

\* a slip: the tail loop starts one byte late
tail_loop_late(data, delim, pos, positions) == scalar_loop(data, delim, pos + 1, positions)

\* for (; pos < size; ++pos) if (ptr[pos] == delimiter) push_back(pos)
tail_loop(data, delim, pos, positions) == scalar_loop(data, delim, pos, positions)

\* the value find_delimiters_simd returns when its instructions execute
find_delimiters_simd(data, delim) ==
    LET after == chunk_loop(data, delim, simd_end_of(Len(data)), 0, << >>)
    IN  tail_loop(data, delim, after[1], after[2])

\* the memory find_delimiters_simd reads in one call: the chunk loads and
\* the byte reads of the tail loop, which starts where the chunk loop stopped
find_delimiters_simd_reads(data, delim) ==
    [ loads |-> chunk_loads(simd_end_of(Len(data)), 0, << >>),
      chunks |-> chunk_trace(data, delim, simd_end_of(Len(data)), 0, << >>),
      tail  |-> tail_reads(Len(data),
                           chunk_loop(data, delim, simd_end_of(Len(data)), 0, << >>)[1]) ]

NoPositions == [ status |-> "none", positions |-> << >> ]

Sigill == "SIGILL"

\* an uncaught std::out_of_range
OutOfRange == "out_of_range"

\* the outcomes of a call of find_delimiters_simd on machine c.  Without
\* AVX-512 the chunk loop raises #UD; the broadcast before the loop
\* (line 66) has no use when there is no full chunk, so a build may or may
\* not execute it.
find_delimiters_simd_outcomes(data, delim, c) ==
    LET ret == [ status |-> "returned", positions |-> find_delimiters_simd(data, delim),
                 reads |-> find_delimiters_simd_reads(data, delim) ]
        ill == [ status |-> Sigill, positions |-> << >> ]
    IN  IF avx512_executes(c) THEN { ret }
        ELSE IF Len(data) < SIMD_WIDTH THEN { ret, ill }
        ELSE { ill }

(***************************************************************************)
(* The numeric converters.                                                 *)
(***************************************************************************)
Digits == { "0", "1", "2", "3", "4", "5", "6", "7", "8", "9" }

\* str[i] - '0' for a digit byte
DigitVal(c) ==
    CASE c = "0" -> 0 [] c = "1" -> 1 [] c = "2" -> 2 [] c = "3" -> 3
      [] c = "4" -> 4 [] c = "5" -> 5 [] c = "6" -> 6 [] c = "7" -> 7
      [] c = "8" -> 8 [] c = "9" -> 9

INT32_MAX == 2147483647

INT32_MIN == -2147483647 - 1

\* the offset of the first byte at or after i that is not a decimal digit
DigitRunEnd(str, i) ==
    Min({ j \in i .. Len(str) - 1 : At(str, j) \notin Digits } \cup { Len(str) })

\* result * 10 + digit in 32-bit two's complement arithmetic (the value the
\* x86 imul/add pair leaves when the int32_t computation overflows), computed
\* on 16-bit halves so that no intermediate value leaves the 32-bit range
MulAdd32(result, digit) ==
    LET lo    == result % 65536
        hi    == result \div 65536
        t     == lo * 10 + digit
        h2    == hi * 10 + (t \div 65536)
        newhi == ((h2 + 32768) % 65536) - 32768
    IN  newhi * 65536 + (t % 65536)

\* -result in 32-bit two's complement arithmetic
Neg32(result) == IF result = INT32_MIN THEN INT32_MIN ELSE 0 - result

RECURSIVE from_chars_acc(_, _, _, _, _)
\* the value of the digits str[i .. e) appended to acc with the given sign,
\* and whether it fits int32_t
from_chars_acc(str, i, e, acc, sign) ==
    IF i >= e THEN [ fits |-> TRUE, value |-> acc ]
    ELSE LET d == DigitVal(At(str, i))
         IN  IF sign = 1 /\ acc > (INT32_MAX - d) \div 10
             THEN [ fits |-> FALSE, value |-> 0 ]
             ELSE IF sign = -1 /\ acc < (INT32_MIN + d + 9) \div 10
             THEN [ fits |-> FALSE, value |-> 0 ]
             ELSE from_chars_acc(str, i + 1, e, acc * 10 + sign * d, sign)

RECURSIVE manual_int_loop(_, _, _)
\* for (; i < str.size(); ++i) { if digit: result = result*10 + digit; else break; }
\* (the new value of result is computed before the next iteration starts)
manual_int_loop(str, i, result) ==
    IF i < Len(str) /\ At(str, i) \in Digits
    THEN CHOOSE r \in
             { manual_int_loop(str, i + 1, next) :
                   next \in { MulAdd32(result, DigitVal(At(str, i))) } } : TRUE
    ELSE result

\* the manual fallback of parse_int (lines 113-131)
parse_int_manual(str) ==
    LET negative == Len(str) > 0 /\ At(str, 0) = "-"
        result   == manual_int_loop(str, IF negative THEN 1 ELSE 0, 0)
    IN  IF negative THEN Neg32(result) ELSE result

\* std::from_chars(first, last, int32_t&): the longest prefix '-'? digit+ ;
\* ec is errc() when there is such a prefix and its value fits int32_t,
\* invalid_argument when there is none, result_out_of_range when it does not
\* fit (the value is then left unmodified)
from_chars_int(str) ==
    LET negative == Len(str) > 0 /\ At(str, 0) = "-"
        b        == IF negative THEN 1 ELSE 0
        e        == DigitRunEnd(str, b)
        acc      == from_chars_acc(str, b, e, 0, IF negative THEN -1 ELSE 1)
    IN  IF e = b THEN [ ec |-> "invalid_argument", value |-> 0 ]
        ELSE IF acc.fits THEN [ ec |-> "ok", value |-> acc.value ]
        ELSE [ ec |-> "result_out_of_range", value |-> 0 ]

\* a slip: parse_int yielding a number only when the whole text is one
parse_int_whole_text(str) ==
    IF DigitRunEnd(str, IF Len(str) > 0 /\ At(str, 0) = "-" THEN 1 ELSE 0) # Len(str)
    THEN 0
    ELSE IF from_chars_int(str).ec = "ok"
         THEN from_chars_int(str).value
         ELSE parse_int_manual(str)

\* a slip: parse_int stepping over a leading '+'
parse_int_plus_sign(str) ==
    IF Len(str) > 0 /\ At(str, 0) = "+"
    THEN IF from_chars_int(Tail(str)).ec = "ok"
         THEN from_chars_int(Tail(str)).value
         ELSE parse_int_manual(Tail(str))
    ELSE IF from_chars_int(str).ec = "ok"
         THEN from_chars_int(str).value
         ELSE parse_int_manual(str)

\* int32_t parse_int(std::string_view str)
parse_int(str) ==
    LET fc == from_chars_int(str)
    IN  IF fc.ec = "ok" THEN fc.value ELSE parse_int_manual(str)

RECURSIVE manual_int_overflows(_, _, _)
\* the manual loop, started at offset i with the exact value result, reaches
\* a step at which result * 10 + digit does not fit int32_t
manual_int_overflows(str, i, result) ==
    /\ i < Len(str)
    /\ At(str, i) \in Digits
    /\ \/ result > (INT32_MAX - DigitVal(At(str, i))) \div 10
       \/ manual_int_overflows(str, i + 1, result * 10 + DigitVal(At(str, i)))

\* int32_t values an overflowed signed computation may leave besides the
\* wrapped one: signed overflow of result * 10 + digit (line 125) is
\* undefined, so the build decides what the loop leaves in result
UndefinedInt32 == { INT32_MIN, -1, 0, 1, INT32_MAX }

\* what a call of parse_int can return: the one value when no step of the
\* manual loop overflows, else the wrapped value or any other int32_t
parse_int_outcomes(str) ==
    IF /\ from_chars_int(str).ec # "ok"
       /\ manual_int_overflows(str, IF Len(str) > 0 /\ At(str, 0) = "-" THEN 1 ELSE 0, 0)
    THEN { parse_int(str) } \cup UndefinedInt32
    ELSE { parse_int(str) }

\* a double, as the exact decimal m * 10^(-e) with m free of trailing zeros;
\* -0.0 and 0.0 compare equal and are one value
Dec(m, e) == [ m |-> m, e |-> e ]

RECURSIVE Norm(_, _)
Norm(m, e) ==
    IF m = 0 THEN Dec(0, 0)
    ELSE IF m % 10 = 0 THEN Norm(m \div 10, e - 1)
    ELSE Dec(m, e)

RECURSIVE integer_part_loop(_, _, _)
\* for (; i < str.size() && str[i] != '.'; ++i) if digit: integer_part*10 + digit
\* (a non-digit byte is stepped over, the loop goes on); returns << i, integer_part >>
integer_part_loop(str, i, integer_part) ==
    IF i < Len(str) /\ At(str, i) # "."
    THEN integer_part_loop(str, i + 1,
             IF At(str, i) \in Digits
             THEN integer_part * 10 + DigitVal(At(str, i))
             ELSE integer_part)
    ELSE << i, integer_part >>

RECURSIVE digits_value(_, _, _, _)
\* the value of the digit run str[i .. e) appended to acc
digits_value(str, i, e, acc) ==
    IF i >= e THEN acc ELSE digits_value(str, i + 1, e, acc * 10 + DigitVal(At(str, i)))

\* the manual path of parse_double (lines 150-183)
parse_double_manual(str) ==
    LET negative == Len(str) > 0 /\ At(str, 0) = "-"
        ip       == integer_part_loop(str, IF negative THEN 1 ELSE 0, 0)
        i        == ip[1]
        hasdot   == i < Len(str) /\ At(str, i) = "."
        fe       == IF hasdot THEN DigitRunEnd(str, i + 1) ELSE i
        nfrac    == IF hasdot THEN fe - (i + 1) ELSE 0
        mant     == IF hasdot
                    THEN digits_value(str, i + 1, fe, ip[2])
                    ELSE ip[2]
    IN  Norm(IF negative THEN 0 - mant ELSE mant, nfrac)

\* std::from_chars(first, last, double&), chars_format::general: the longest
\* prefix '-'? (digit+ ('.' digit* )? | '.' digit+) ([eE] [+-]? digit+)? ;
\* invalid_argument when there is none, result_out_of_range when the value
\* leaves the range of double.  (The inf / nan forms need the bytes i, n,
\* which no input of this model holds.)
\*
\* The mantissa, its integer digits being str[b .. i1) and, when a '.' follows
\* them (hasdot), its fraction digits str[i1 + 1 .. i2): how many digits of
\* each kind, where the mantissa ends, and its digits as one integer.
from_chars_mantissa(str, b, i1, hasdot, i2) ==
    [ nint  |-> i1 - b,
      nfrac |-> IF hasdot THEN i2 - (i1 + 1) ELSE 0,
      end   |-> IF hasdot /\ i2 - b > 1 THEN i2 ELSE i1,
      value |-> IF hasdot
                THEN digits_value(str, i1 + 1, i2, digits_value(str, b, i1, 0))
                ELSE digits_value(str, b, i1, 0) ]

\* the mantissa whose integer digits are str[b .. i1)
from_chars_scan_mantissa(str, b, i1) ==
    IF i1 < Len(str) /\ At(str, i1) = "."
    THEN from_chars_mantissa(str, b, i1, TRUE, DigitRunEnd(str, i1 + 1))
    ELSE from_chars_mantissa(str, b, i1, FALSE, i1)

\* the exponent digits expected at offset s: their signed value, 0 (and no
\* exponent taken) when there is no digit there
from_chars_exponent_digits(str, s, sign) ==
    sign * digits_value(str, s, DigitRunEnd(str, s), 0)

\* the decimal exponent of an exponent part starting at offset mend, 0 if
\* there is none
from_chars_exponent(str, mend) ==
    IF mend < Len(str) /\ At(str, mend) \in { "e", "E" }
    THEN IF mend + 1 < Len(str) /\ At(str, mend + 1) = "-"
         THEN from_chars_exponent_digits(str, mend + 2, -1)
         ELSE IF mend + 1 < Len(str) /\ At(str, mend + 1) = "+"
         THEN from_chars_exponent_digits(str, mend + 2, 1)
         ELSE from_chars_exponent_digits(str, mend + 1, 1)
    ELSE 0

\* ec and value for a scanned mantissa and exponent
from_chars_double_result(negative, mant, exp10) ==
    IF mant.nint + mant.nfrac = 0
    THEN [ ec |-> "invalid_argument", value |-> Dec(0, 0) ]
    ELSE IF mant.value # 0 /\ (mant.nint + exp10 > 308 \/ mant.nint + exp10 < -323)
    THEN [ ec |-> "result_out_of_range", value |-> Dec(0, 0) ]
    ELSE [ ec    |-> "ok",
           value |-> Norm(IF negative THEN 0 - mant.value ELSE mant.value,
                          mant.nfrac - exp10) ]

from_chars_double_scanned(str, negative, mant) ==
    from_chars_double_result(negative, mant, from_chars_exponent(str, mant.end))

from_chars_double(str) ==
    IF Len(str) > 0 /\ At(str, 0) = "-"
    THEN from_chars_double_scanned(str, TRUE,
             from_chars_scan_mantissa(str, 1, DigitRunEnd(str, 1)))
    ELSE from_chars_double_scanned(str, FALSE,
             from_chars_scan_mantissa(str, 0, DigitRunEnd(str, 0)))

\* a slip: parse_double without its from_chars path
parse_double_manual_only(str) == parse_double_manual(str)

\* double parse_double(std::string_view str): the from_chars path is compiled
\* in only when __cpp_lib_to_chars is defined
parse_double(str) ==
    LET fc == from_chars_double(str)
    IN  IF to_chars /\ fc.ec = "ok" THEN fc.value ELSE parse_double_manual(str)

(***************************************************************************)
(* String views and the output record.                                     *)
(***************************************************************************)
\* a std::string_view: off is where it starts, as an offset into the input
\* buffer (-1 for the null pointer of a default-constructed view), str the
\* bytes seen through it
NullView == [ off |-> -1, str |-> << >> ]

view_of(data) == [ off |-> 0, str |-> data ]

\* sv.substr(pos, count): count is clipped to size() - pos
substr(sv, pos, count) ==
    LET rcount == IF count < Len(sv.str) - pos THEN count ELSE Len(sv.str) - pos
    IN  [ off |-> sv.off + pos, str |-> Substr(sv.str, pos, rcount) ]

\* sv.substr(pos): count defaults to npos
substr_from(sv, pos) == substr(sv, pos, Len(sv.str) - pos)

\* substr throws std::out_of_range when pos > size()
substr_throws(sv, pos) == pos > Len(sv.str)

\* FIXMessage(): side(0), price(0.0), quantity(0), valid(false), the views default
FIXMessage ==
    [ message_type |-> NullView, symbol |-> NullView,
      sender |-> NullView, target |-> NullView,
      side |-> 0, price |-> Dec(0, 0), quantity |-> 0, valid |-> FALSE ]

\* enum class FIXTag
BeginString == 8

BodyLength == 9

MessageType == 35

SenderCompID == 49

TargetCompID == 56

Side == 54

Symbol == 55

OrderQty == 38

Price == 44

(***************************************************************************)
(* The field tokenizer and the record builder.                             *)
(***************************************************************************)
NPOS == -1

\* sv.find(c): the offset of the first c, or npos
find(sv, c) ==
    LET hits == { i \in 0 .. Len(sv.str) - 1 : At(sv.str, i) = c }
    IN  IF hits = {} THEN NPOS ELSE Min(hits)

\* a slip: the field split at its last '=' (rfind) instead of its first
split_field_at_last_eq(field) ==
    IF find(field, "=") = NPOS \/ find(field, "=") = 0
    THEN [ ok |-> FALSE, raised |-> FALSE, tag |-> 0, value |-> NullView ]
    ELSE [ ok     |-> TRUE,
           raised |-> FALSE,
           tag    |-> parse_int(substr(field, 0,
                          Max({ i \in 0 .. Len(field.str) - 1 : At(field.str, i) = "=" })).str),
           value  |-> substr_from(field,
                          Max({ i \in 0 .. Len(field.str) - 1 : At(field.str, i) = "=" }) + 1) ]

\* a slip: a field without '=' taken as a key with an empty value
split_field_bare_key(field) ==
    LET eq_pos == find(field, "=")
    IN  IF eq_pos = 0
        THEN [ ok |-> FALSE, raised |-> FALSE, tag |-> 0, value |-> NullView ]
        ELSE IF eq_pos = NPOS
        THEN [ ok     |-> TRUE,
               raised |-> FALSE,
               tag    |-> parse_int(field.str),
               value  |-> substr_from(field, Len(field.str)) ]
        ELSE [ ok     |-> TRUE,
               raised |-> substr_throws(field, eq_pos + 1),
               tag    |-> parse_int(substr(field, 0, eq_pos).str),
               value  |-> substr_from(field, eq_pos + 1) ]

\* a slip: the value sliced from the '=' on, not from the byte after it
split_field_value_from_eq(field) ==
    LET eq_pos == find(field, "=")
    IN  IF eq_pos = NPOS \/ eq_pos = 0
        THEN [ ok |-> FALSE, raised |-> FALSE, tag |-> 0, value |-> NullView ]
        ELSE [ ok     |-> TRUE,
               raised |-> substr_throws(field, eq_pos),
               tag    |-> parse_int(substr(field, 0, eq_pos).str),
               value  |-> substr_from(field, eq_pos) ]

\* bool split_field(field, tag, value), as [ok, raised, tag, value]; raised
\* when a substr throws.  tag is a uint32_t assigned from the int32_t of
\* parse_int: it is kept as that 32-bit pattern, which compares with the
\* FIXTag values as the uint32_t does.
split_field(field) ==
    LET eq_pos == find(field, "=")
    IN  IF eq_pos = NPOS \/ eq_pos = 0
        THEN [ ok |-> FALSE, raised |-> FALSE, tag |-> 0, value |-> NullView ]
        ELSE [ ok     |-> TRUE,
               raised |-> substr_throws(field, eq_pos + 1),
               tag    |-> parse_int(substr(field, 0, eq_pos).str),
               value  |-> substr_from(field, eq_pos + 1) ]

\* a slip: a text slot is written only while it is still empty
populate_message_first_wins(msg, tag, value) ==
    CASE tag = MessageType /\ msg.message_type.str = << >>
                            -> [ msg EXCEPT !.message_type = value ]
      [] tag = Symbol /\ msg.symbol.str = << >>
                            -> [ msg EXCEPT !.symbol = value ]
      [] tag = SenderCompID /\ msg.sender.str = << >>
                            -> [ msg EXCEPT !.sender = value ]
      [] tag = TargetCompID /\ msg.target.str = << >>
                            -> [ msg EXCEPT !.target = value ]
      [] tag = Side         -> [ msg EXCEPT !.side = parse_int(value.str) ]
      [] tag = Price        -> [ msg EXCEPT !.price = parse_double(value.str) ]
      [] tag = OrderQty     -> [ msg EXCEPT !.quantity = parse_int(value.str) ]
      [] OTHER              -> msg

\* a slip: the declared tag BeginString given a case that writes a slot
populate_message_begin_string(msg, tag, value) ==
    CASE tag = MessageType  -> [ msg EXCEPT !.message_type = value ]
      [] tag = BeginString  -> [ msg EXCEPT !.message_type = value ]
      [] tag = Symbol       -> [ msg EXCEPT !.symbol = value ]
      [] tag = SenderCompID -> [ msg EXCEPT !.sender = value ]
      [] tag = TargetCompID -> [ msg EXCEPT !.target = value ]
      [] tag = Side         -> [ msg EXCEPT !.side = parse_int(value.str) ]
      [] tag = Price        -> [ msg EXCEPT !.price = parse_double(value.str) ]
      [] tag = OrderQty     -> [ msg EXCEPT !.quantity = parse_int(value.str) ]
      [] OTHER              -> msg

\* a slip: the cases of Side and OrderQty write each other's slot
populate_message_side_as_quantity(msg, tag, value) ==
    CASE tag = MessageType  -> [ msg EXCEPT !.message_type = value ]
      [] tag = Symbol       -> [ msg EXCEPT !.symbol = value ]
      [] tag = SenderCompID -> [ msg EXCEPT !.sender = value ]
      [] tag = TargetCompID -> [ msg EXCEPT !.target = value ]
      [] tag = Side         -> [ msg EXCEPT !.quantity = parse_int(value.str) ]
      [] tag = Price        -> [ msg EXCEPT !.price = parse_double(value.str) ]
      [] tag = OrderQty     -> [ msg EXCEPT !.side = parse_int(value.str) ]
      [] OTHER              -> msg

\* void populate_message(FIXMessage& msg, uint32_t tag, std::string_view value)
populate_message(msg, tag, value) ==
    CASE tag = MessageType  -> [ msg EXCEPT !.message_type = value ]
      [] tag = Symbol       -> [ msg EXCEPT !.symbol = value ]
      [] tag = SenderCompID -> [ msg EXCEPT !.sender = value ]
      [] tag = TargetCompID -> [ msg EXCEPT !.target = value ]
      [] tag = Side         -> [ msg EXCEPT !.side = parse_int(value.str) ]
      [] tag = Price        -> [ msg EXCEPT !.price = parse_double(value.str) ]
      [] tag = OrderQty     -> [ msg EXCEPT !.quantity = parse_int(value.str) ]
      [] OTHER              -> msg

\* the record under construction and the history of the call: where each
\* field sliced so far starts and how long it is, every value the running
\* start offset has taken, and whether an exception was thrown
InitialRun == [ msg |-> FIXMessage, fields |-> << >>, starts |-> << 0 >>, raised |-> FALSE ]

\* a slip: fields with an empty value are not handed to populate_message
apply_split_nonempty_value(run, sf) ==
    IF sf.raised THEN [ run EXCEPT !.raised = TRUE ]
    ELSE IF sf.ok /\ sf.value.str # << >>
         THEN [ run EXCEPT !.msg = populate_message(run.msg, sf.tag, sf.value) ]
    ELSE run

\* the outcome of split_field applied to the run: populate_message when the
\* field splits, the exception when a substr throws
apply_split(run, sf) ==
    IF sf.raised THEN [ run EXCEPT !.raised = TRUE ]
    ELSE IF sf.ok THEN [ run EXCEPT !.msg = populate_message(run.msg, sf.tag, sf.value) ]
    ELSE run

\* one field handed to split_field and, when it splits, to populate_message
\* (lines 194-199 and 208-213)
process_field(run, field) ==
    apply_split([ run EXCEPT !.fields = Append(run.fields,
                                 [ off |-> field.off, len |-> Len(field.str) ]) ],
                split_field(field))

\* message.substr(start, count) handed on as a field, or the exception
slice_field(sv, start, count, run) ==
    IF substr_throws(sv, start) THEN [ run EXCEPT !.raised = TRUE ]
    ELSE process_field(run, substr(sv, start, count))

\* a slip: delim_pos >= start where delim_pos > start is meant
field_step_ge(sv, delim_pos, start, run) ==
    IF delim_pos >= start
    THEN slice_field(sv, start, delim_pos - start, run)
    ELSE run

\* the body of  for (size_t delim_pos : delimiters)  up to the update of
\* start (lines 191-200)
field_step(sv, delim_pos, start, run) ==
    IF delim_pos > start
    THEN slice_field(sv, start, delim_pos - start, run)
    ELSE run

\* start = delim_pos + 1
next_start(delim_pos) == delim_pos + 1

\* the run with the new value of start noted, unless an exception ended the call
note_start(run, start) ==
    IF run.raised THEN run ELSE [ run EXCEPT !.starts = Append(run.starts, start) ]

RECURSIVE field_loop(_, _, _, _, _)
\* size_t start = 0; for (size_t delim_pos : delimiters) { ...; start = delim_pos + 1; }
\* returns << start, run >>
field_loop(sv, delimiters, k, start, run) ==
    IF k > Len(delimiters) \/ run.raised THEN << start, run >>
    ELSE field_loop(sv, delimiters, k + 1, next_start(delimiters[k]),
                    note_start(field_step(sv, delimiters[k], start, run),
                               next_start(delimiters[k])))

\* a slip: the text after the last delimiter is forgotten
last_field_forgotten(sv, start, run) == run

\* if (start < message.size()) { field = message.substr(start); ... }  (lines 204-214)
last_field(sv, start, run) ==
    IF ~run.raised /\ start < Len(sv.str)
    THEN slice_field(sv, start, Len(sv.str) - start, run)
    ELSE run

\* a slip: validity granted when either of the two slots is filled
validate_either(msg) ==
    [ msg EXCEPT !.valid = (Len(msg.message_type.str) # 0 \/ Len(msg.symbol.str) # 0) ]

\* a slip: validity decided by the message type alone
validate_type_only(msg) ==
    [ msg EXCEPT !.valid = (Len(msg.message_type.str) # 0) ]

\* result.valid = !result.message_type.empty() && !result.symbol.empty()
validate(msg) ==
    [ msg EXCEPT !.valid = (Len(msg.message_type.str) # 0 /\ Len(msg.symbol.str) # 0) ]

\* what the call leaves: the record with valid set, or the exception
parse_result(run, scanner) ==
    [ status  |-> IF run.raised THEN OutOfRange ELSE "returned",
      msg     |-> IF run.raised THEN run.msg ELSE validate(run.msg),
      fields  |-> run.fields,
      starts  |-> run.starts,
      scanner |-> scanner ]

\* the field after the last delimiter, after the delimiter loop
after_loop(sv, after) == last_field(sv, after[1], after[2])

\* the part parse_scalar and parse_simd share verbatim, from the delimiter
\* list on (lines 188-219 and 232-263).  scanner names the scanner the list
\* came from (a history of the call, as fields and starts are).
parse_fields(data, delimiters, scanner) ==
    parse_result(after_loop(view_of(data),
                            field_loop(view_of(data), delimiters, 1, 0, InitialRun)),
                 scanner)

NoResult ==
    [ status |-> "none", msg |-> FIXMessage, fields |-> << >>, starts |-> << >>,
      scanner |-> "" ]

\* if (message.empty()) return result;
EmptyResult ==
    [ status |-> "returned", msg |-> FIXMessage, fields |-> << >>, starts |-> << >>,
      scanner |-> "" ]

SigillResult ==
    [ status |-> Sigill, msg |-> FIXMessage, fields |-> << >>, starts |-> << >>,
      scanner |-> "find_delimiters_simd" ]

\* FIXMessage parse_scalar(std::string_view message)
parse_scalar(data) ==
    IF data = << >> THEN EmptyResult
    ELSE parse_fields(data, find_delimiters_scalar(data, "|"), "find_delimiters_scalar")

\* a slip: parse_simd without its  if (message.empty()) return result;
parse_simd_unguarded(data, c) ==
    { IF o.status = Sigill THEN SigillResult
      ELSE parse_fields(data, o.positions, "find_delimiters_simd") :
      o \in find_delimiters_simd_outcomes(data, "|", c) }

\* a slip: parse_simd consulting has_avx512_support and going through the
\* scalar scanner where it is false
parse_simd_checking_hardware(data, c) ==
    IF data = << >> THEN { EmptyResult }
    ELSE IF ~has_avx512_support(c) THEN { parse_scalar(data) }
    ELSE { IF o.status = Sigill THEN SigillResult
           ELSE parse_fields(data, o.positions, "find_delimiters_simd") :
           o \in find_delimiters_simd_outcomes(data, "|", c) }

\* FIXMessage parse_simd(std::string_view message): the outcomes on machine c
parse_simd(data, c) ==
    IF data = << >> THEN { EmptyResult }
    ELSE { IF o.status = Sigill THEN SigillResult
           ELSE parse_fields(data, o.positions, "find_delimiters_simd") :
           o \in find_delimiters_simd_outcomes(data, "|", c) }

\* a slip: the two branches of parse_auto exchanged
parse_auto_exchanged(data, flag, c) ==
    IF flag THEN { parse_scalar(data) } ELSE parse_simd(data, c)

\* FIXMessage parse_auto(std::string_view message), flag the value of the
\* static avx512_available: the outcomes on machine c
parse_auto(data, flag, c) ==
    IF flag THEN parse_simd(data, c) ELSE { parse_scalar(data) }

(***************************************************************************)
(* The inputs of the model.                                                *)
(***************************************************************************)
\* k filler bytes
Fill(k) == [ i \in 1 .. k |-> "X" ]

\* the pieces parser inputs are made of: well-formed fields of every
\* recognized key, a repeated key, a complete order header, the declared
\* but unrecognized keys 8 and 9, malformed fields, an empty field, and one
\* long field
Pieces ==
    { << "3", "5", "=", "D", "|" >>,
      << "5", "5", "=", "A", "|" >>,
      << "5", "5", "=", "B", "|" >>,
      << "3", "5", "=", "D", "|", "4", "9", "=", "S", "|",
         "5", "6", "=", "T", "|", "5", "5", "=", "A", "|" >>,
      << "3", "5", "D", "|" >>,
      << "=", "D", "|" >>,
      << "8", "=", "F", "|" >>,
      << "|" >>,
      << "5", "4", "=", "1", "|", "3", "8", "=", "7", "|",
         "4", "4", "=", "2", ".", "5", "|" >>,
      << "9", "=" >> \o Fill(PadLen - 3) \o << "|" >> }

RECURSIVE Flatten(_)
Flatten(ps) == IF ps = << >> THEN << >> ELSE Head(ps) \o Flatten(Tail(ps))

\* t without its final delimiter, if it ends with one
Chop(t) ==
    IF t # << >> /\ t[Len(t)] = "|" THEN SubSeq(t, 1, Len(t) - 1) ELSE t

Concatenations ==
    { Flatten(ps) : ps \in UNION { [ 1 .. n -> Pieces ] : n \in 0 .. MaxPieces } }

\* the parser inputs: the concatenations of at most MaxPieces pieces, with
\* and without the final delimiter
ParserInputs == Concatenations \cup { Chop(t) : t \in Concatenations }

\* the scanner inputs: a head, 0 .. MaxFill filler bytes and a tail
Edges == { << >>, << "|" >>, << "|", "|" >>, << "=", "|", "X" >> }

ScannerInputs ==
    { h \o Fill(k) \o t : h \in Edges, t \in Edges, k \in 0 .. MaxFill }

\* the delimiter bytes: the field delimiter, the key/value separator, the filler
Delimiters == { "|", "=", "X" }

(***************************************************************************)
(* The state machine.                                                      *)
(***************************************************************************)
Uninitialized == [ initialized |-> FALSE, value |-> FALSE ]

\* a SIGILL or an uncaught exception ends the process
Crashed ==
    \/ simd_result.status = Sigill
    \/ auto_result.status = Sigill
    \/ simd_positions.status = Sigill
    \/ \E r \in { scalar_result, simd_result, auto_result } : r.status = OutOfRange

\* no unit call made
NoCall == [ fn |-> "none" ]

\* the threads of the process
Threads == 1 .. MaxThreads

\* the text thread t parses: a buffer of its own, with a symbol of t bytes
ThreadInput(t) ==
    << "3", "5", "=", "D", "|", "5", "5", "=" >> \o Fill(t) \o << "|", "5", "4", "=", "1" >>

\* the locals of a parse call at its entry:  FIXMessage result;  with no
\* delimiter list yet
EntryLocals ==
    [ delimiters |-> << >>, k |-> 1, start |-> 0, run |-> InitialRun ]

\* the frame of thread t before its call
IdleFrame(t) ==
    [ at |-> "idle", entry |-> "", scanner |-> "", input |-> ThreadInput(t),
      locals |-> EntryLocals, result |-> NoResult ]

InitCommon ==
    /\ avx512_available = Uninitialized
    /\ hw_queries = 0
    /\ support_results = << >>
    /\ auto_routes = << >>
    /\ pc = [ t \in Threads |-> "idle" ]
    /\ observed = [ t \in Threads |-> << >> ]
    /\ guard = "free"
    /\ frames = [ t \in Threads |-> IdleFrame(t) ]
    /\ scalar_result = NoResult
    /\ simd_result = NoResult
    /\ auto_result = NoResult
    /\ scalar_positions = NoPositions
    /\ simd_positions = NoPositions

\* a process that parses one message through the entry points
Init ==
    /\ InitCommon
    /\ cpu \in Machines
    /\ call = NoCall
    /\ message \in ParserInputs
    /\ to_chars \in BOOLEAN
    /\ delimiter = "|"

\* scalar_result = parse_scalar(message)
ParseScalar ==
    /\ ~Crashed
    /\ scalar_result.status = "none"
    /\ scalar_result' = parse_scalar(message)
    /\ UNCHANGED << message, cpu, to_chars, avx512_available, simd_result,
                    auto_result, delimiter, scalar_positions, simd_positions,
                    unit_vars, detect_vars, thread_vars >>

\* simd_result = parse_simd(message)
ParseSimd ==
    /\ ~Crashed
    /\ simd_result.status = "none"
    /\ \E o \in parse_simd(message, cpu) : simd_result' = o
    /\ UNCHANGED << message, cpu, to_chars, avx512_available, scalar_result,
                    auto_result, delimiter, scalar_positions, simd_positions,
                    unit_vars, detect_vars, thread_vars >>

\* the value of  static bool avx512_available = has_avx512_support();  once
\* control has passed the declaration: computed on the first call only
static_avx512_available ==
    IF avx512_available.initialized THEN avx512_available.value
    ELSE has_avx512_support(cpu)

\* a slip: avx512_available declared without  static , so that its
\* initializer runs in every call
initializer_runs_every_call(flag) == 1

\* how often the initializer of the static runs in one call of parse_auto
initializer_runs(flag) == IF flag.initialized THEN 0 ELSE 1

\* auto_result = parse_auto(message)
ParseAuto ==
    /\ ~Crashed
    /\ auto_result.status = "none"
    /\ avx512_available' = [ initialized |-> TRUE, value |-> static_avx512_available ]
    /\ hw_queries' = hw_queries + initializer_runs(avx512_available)
    /\ \E o \in parse_auto(message, static_avx512_available, cpu) : auto_result' = o
    /\ UNCHANGED << message, cpu, to_chars, scalar_result, simd_result,
                    delimiter, scalar_positions, simd_positions,
                    unit_vars, support_results, auto_routes, thread_vars >>

Next == ParseScalar \/ ParseSimd \/ ParseAuto

Spec == Init /\ [][Next]_vars

\* a process that scans one text with both scanners
InitScan ==
    /\ InitCommon
    /\ cpu \in Machines
    /\ call = NoCall
    /\ message \in ScannerInputs
    /\ to_chars = TRUE
    /\ delimiter \in Delimiters

\* scalar_positions = find_delimiters_scalar(message, delimiter)
FindDelimitersScalar ==
    /\ ~Crashed
    /\ scalar_positions.status = "none"
    /\ scalar_positions' =
           [ status |-> "returned", positions |-> find_delimiters_scalar(message, delimiter) ]
    /\ UNCHANGED << message, cpu, to_chars, avx512_available, scalar_result,
                    simd_result, auto_result, delimiter, simd_positions,
                    unit_vars, detect_vars, thread_vars >>

\* simd_positions = find_delimiters_simd(message, delimiter)
FindDelimitersSimd ==
    /\ ~Crashed
    /\ simd_positions.status = "none"
    /\ \E o \in find_delimiters_simd_outcomes(message, delimiter, cpu) : simd_positions' = o
    /\ UNCHANGED << message, cpu, to_chars, avx512_available, scalar_result,
                    simd_result, auto_result, delimiter, scalar_positions,
                    unit_vars, detect_vars, thread_vars >>

NextScan == FindDelimitersScalar \/ FindDelimitersSimd

SpecScan == InitScan /\ [][NextScan]_vars

(***************************************************************************)
(* Unit calls: populate_message and parse_int called on their own.         *)
(***************************************************************************)
\* the texts given to parse_int: a prefix, a digit run and a suffix
IntPrefixes == { << >>, << "-" >>, << "+" >>, << " " >>, << "a" >>, << "-", "-" >> }

IntDigitRuns ==
    { << >>, << "0" >>, << "5" >>, << "1", "2" >>, << "0", "0", "7" >>,
      << "2", "1", "4", "7", "4", "8", "3", "6", "4", "7" >>,
      << "2", "1", "4", "7", "4", "8", "3", "6", "4", "8" >>,
      << "2", "1", "4", "7", "4", "8", "3", "6", "4", "9" >>,
      << "9", "9", "9", "9", "9", "9", "9", "9", "9", "9", "9" >> }

IntSuffixes == { << >>, << "x" >>, << ".", "5" >>, << "-" >>, << " ", "1" >>, << "a", "b", "c" >> }

IntTexts == { p \o d \o x : p \in IntPrefixes, d \in IntDigitRuns, x \in IntSuffixes }

\* the records, tags and values given to populate_message
PopulatedRecord ==
    [ message_type |-> [ off |-> 3, str |-> << "D" >> ],
      symbol       |-> [ off |-> 8, str |-> << "A" >> ],
      sender       |-> [ off |-> 13, str |-> << "S" >> ],
      target       |-> [ off |-> 18, str |-> << "T" >> ],
      side |-> 1, price |-> Dec(25, 1), quantity |-> 7, valid |-> TRUE ]

CallRecords == { FIXMessage, PopulatedRecord }

CallTags ==
    { 0, 1, BeginString, BodyLength, MessageType, OrderQty, Price, SenderCompID,
      Side, Symbol, TargetCompID, 100, -35 }

CallValues ==
    { [ off |-> 23, str |-> t ] :
      t \in { << >>, << "B" >>, << "2" >>, << "-", "4" >>, << "1", "5", "0", ".", "2", "5" >>,
               << "x", "5" >>, << "1", "2", "a" >> } }

PopulateCalls ==
    { [ fn |-> "populate_message", status |-> "called", msg |-> m, tag |-> t, value |-> v ] :
      m \in CallRecords, t \in CallTags, v \in CallValues }

IntCalls == { [ fn |-> "parse_int", status |-> "called", str |-> t ] : t \in IntTexts }

\* the texts given to parse_double: prices, the texts of INVALID_NUMBERS and
\* texts in exponential notation
DoubleTexts ==
    { << >>, << "0" >>, << "1", "5", "0", ".", "2", "5" >>, << "-", "1", ".", "5" >>,
      << "0", ".", "0", "0", "2", "5" >>,
      << "a", "b", "c" >>, << "1", "2", ".", "3", "4", ".", "5", "6" >>,
      << "1", ",", "0", "0", "0" >>, << "+", "+", "1" >>, << "-", "-", "1" >>,
      << "1", "-" >>, << ".", "5" >>, << "5", "." >>, << "x", "5" >>,
      << "1", "e", "5" >>, << "1", ".", "5", "e", "3" >>, << "2", "e", "-", "3" >>,
      << "-", "1", "E", "2" >>, << "1", "e" >>, << "1", "e", "+" >> }

DoubleCalls == { [ fn |-> "parse_double", status |-> "called", str |-> t ] : t \in DoubleTexts }

\* the fields given to split_field
FieldTexts ==
    { << "5", "5", "=", "A" >>, << "5", "5", "=", "A", "=", "B" >>,
      << "3", "5", "=" >>, << "3", "5", "=", "=" >>, << "4", "4", "=", "1", "=" >>,
      << "=", "D" >>, << "=" >>, << "3", "5", "D" >>, << "3", "5", "x", "=", "D" >>,
      << "x", "=", "1" >>, << "-", "3", "5", "=", "D" >>, << "5", "5", " ", "=", "=", "A" >> }

SplitCalls ==
    { [ fn |-> "split_field", status |-> "called", field |-> [ off |-> 5, str |-> t ] ] :
      t \in FieldTexts }

\* the messages given to the entry points one at a time
EntryTexts ==
    { << "3", "5", "=", "D", "|", "5", "5", "=", "A", "=", "B", "|" >>,
      << "5", "5", "=", "A", "=", "B" >>,
      << "3", "5", "=", "D", "|", "5", "5", "=", "A", "|", "3", "5", "=", "|" >>,
      << "3", "5", "=", "D", "|", "5", "5", "=", "A", "|", "5", "5", "=" >>,
      << "3", "5", "=", "|", "5", "5", "=", "A", "|", "3", "5", "=", "D", "|" >>,
      << "3", "5", "=", "D", "|", "5", "5", "=", "A", "|" >>,
      << "3", "5", "x", "=", "D", "|", "5", "5", " ", "=", "A", "|" >>,
      << "3", "5", "x", "=", "D", "|", "5", "5", "=", "A", "|", "5", "4", ".", "0", "=", "2", "|" >>,
      << "x", "3", "5", "=", "D", "|", "5", "5", "=", "A", "|" >>,
      << "8", "=", "F", "3", "5", "=", "D", "5", "5", "=", "A" >>,
      << "3", "5", "=", "D", "5", "5", "=", "A" >>,
      << "5", "5", "=", "A", "3", "5", "=", "D" >> }

EntryCalls ==
    { [ fn |-> e, status |-> "called", str |-> t ] :
      e \in { "parse_scalar", "parse_simd", "parse_auto" }, t \in EntryTexts }

\* a process that makes one call of populate_message, parse_int,
\* parse_double, split_field or an entry point
InitCalls ==
    /\ InitCommon
    /\ cpu = Avx512Machine
    /\ message = << >>
    /\ to_chars \in BOOLEAN
    /\ delimiter = "|"
    /\ call \in PopulateCalls \cup IntCalls \cup DoubleCalls \cup SplitCalls \cup EntryCalls

\* populate_message(msg, tag, value); result is msg after the call
PopulateMessage ==
    /\ call.fn = "populate_message"
    /\ call.status = "called"
    /\ call' = [ fn |-> call.fn, status |-> "returned", msg |-> call.msg,
                  tag |-> call.tag, value |-> call.value,
                  result |-> populate_message(call.msg, call.tag, call.value) ]
    /\ UNCHANGED << message, cpu, to_chars, avx512_available, scalar_result,
                    simd_result, auto_result, delimiter, scalar_positions,
                    simd_positions, detect_vars, thread_vars >>

\* result = parse_int(str)
ParseInt ==
    /\ call.fn = "parse_int"
    /\ call.status = "called"
    /\ \E o \in parse_int_outcomes(call.str) :
           call' = [ fn |-> call.fn, status |-> "returned", str |-> call.str,
                     result |-> o ]
    /\ UNCHANGED << message, cpu, to_chars, avx512_available, scalar_result,
                    simd_result, auto_result, delimiter, scalar_positions,
                    simd_positions, detect_vars, thread_vars >>

\* result = parse_double(str)
ParseDouble ==
    /\ call.fn = "parse_double"
    /\ call.status = "called"
    /\ call' = [ fn |-> call.fn, status |-> "returned", str |-> call.str,
                  result |-> parse_double(call.str) ]
    /\ UNCHANGED << message, cpu, to_chars, avx512_available, scalar_result,
                    simd_result, auto_result, delimiter, scalar_positions,
                    simd_positions, detect_vars, thread_vars >>

\* result = what split_field(field, tag, value) returns and assigns
SplitField ==
    /\ call.fn = "split_field"
    /\ call.status = "called"
    /\ call' = [ fn |-> call.fn, status |-> "returned", field |-> call.field,
                  result |-> split_field(call.field) ]
    /\ UNCHANGED << message, cpu, to_chars, avx512_available, scalar_result,
                    simd_result, auto_result, delimiter, scalar_positions,
                    simd_positions, detect_vars, thread_vars >>

\* the outcomes of entry point fn on data
entry_outcomes(fn, data) ==
    IF fn = "parse_scalar" THEN { parse_scalar(data) }
    ELSE IF fn = "parse_simd" THEN parse_simd(data, cpu)
    ELSE parse_auto(data, static_avx512_available, cpu)

\* result = parse_scalar(str), parse_simd(str) or parse_auto(str)
ParseMessage ==
    /\ call.fn \in { "parse_scalar", "parse_simd", "parse_auto" }
    /\ call.status = "called"
    /\ \E o \in entry_outcomes(call.fn, call.str) :
           call' = [ fn |-> call.fn, status |-> "returned", str |-> call.str,
                     result |-> o ]
    /\ avx512_available' =
           IF call.fn = "parse_auto"
           THEN [ initialized |-> TRUE, value |-> static_avx512_available ]
           ELSE avx512_available
    /\ hw_queries' =
           IF call.fn = "parse_auto"
           THEN hw_queries + initializer_runs(avx512_available)
           ELSE hw_queries
    /\ UNCHANGED << message, cpu, to_chars, scalar_result, simd_result,
                    auto_result, delimiter, scalar_positions, simd_positions,
                    support_results, auto_routes, thread_vars >>

NextCalls == PopulateMessage \/ ParseInt \/ ParseDouble \/ SplitField \/ ParseMessage

SpecCalls == InitCalls /\ [][NextCalls]_vars

(***************************************************************************)
(* The detector: direct calls of has_avx512_support and repeated calls of  *)
(* parse_auto in one process, on every machine.                            *)
(***************************************************************************)
\* the messages parsed: empty, shorter than one chunk, longer than one chunk
DetectInputs ==
    { << >>,
      << "3", "5", "=", "D", "|", "5", "5", "=", "A", "|" >>,
      << "3", "5", "=", "D", "|", "5", "5", "=", "A", "|", "9", "=" >>
          \o Fill(SIMD_WIDTH) \o << "|" >> }

InitDetect ==
    /\ InitCommon
    /\ cpu \in AllMachines
    /\ call = NoCall
    /\ message \in DetectInputs
    /\ to_chars = TRUE
    /\ delimiter = "|"

\* a direct call of has_avx512_support(), as the examples, the tests and
\* the benchmark make it: the function body runs again
HasAvx512Support ==
    /\ ~Crashed
    /\ Len(support_results) < MaxCalls
    /\ hw_queries' = hw_queries + 1
    /\ support_results' = Append(support_results, has_avx512_support_run(cpu))
    /\ UNCHANGED << message, cpu, to_chars, avx512_available, scalar_result,
                    simd_result, auto_result, delimiter, scalar_positions,
                    simd_positions, unit_vars, auto_routes, thread_vars >>

\* what one call of parse_auto leaves in auto_routes
route_taken(flag, o) ==
    [ initialized_before |-> flag.initialized,
      flag |-> static_avx512_available,
      scanner |-> o.scanner,
      status |-> o.status ]

\* one more call parse_auto(message) in the same process
ParseAutoAgain ==
    /\ ~Crashed
    /\ Len(auto_routes) < MaxCalls
    /\ avx512_available' = [ initialized |-> TRUE, value |-> static_avx512_available ]
    /\ hw_queries' = hw_queries + initializer_runs(avx512_available)
    /\ \E o \in parse_auto(message, static_avx512_available, cpu) :
           /\ auto_result' = o
           /\ auto_routes' = Append(auto_routes, route_taken(avx512_available, o))
    /\ UNCHANGED << message, cpu, to_chars, scalar_result, simd_result,
                    delimiter, scalar_positions, simd_positions,
                    unit_vars, support_results, thread_vars >>

NextDetect == HasAvx512Support \/ ParseAutoAgain

SpecDetect == InitDetect /\ [][NextDetect]_vars

(***************************************************************************)
(* Threads: several threads call parse_auto in one process.  The static of *)
(* parse_auto is initialized under the guard the compiler emits for a      *)
(* function-local static (C++11 [stmt.dcl]: a thread that enters the       *)
(* declaration while another initializes the variable waits).              *)
(***************************************************************************)
\* a slip: the static initialized without its guard (-fno-threadsafe-statics)
guard_acquired_unguarded(g) == g # "done"

\* __cxa_guard_acquire returns 1 to the thread that finds the guard free;
\* it blocks the thread that finds it held
guard_acquired(g) == g = "free"

InitThreads ==
    /\ InitCommon
    /\ cpu \in Machines
    /\ call = NoCall
    /\ message \in DetectInputs
    /\ to_chars = TRUE
    /\ delimiter = "|"

\* thread t calls parse_auto(message) and reaches the declaration
CallParseAuto(t) ==
    /\ pc[t] = "idle"
    /\ Len(observed[t]) < MaxCalls
    /\ pc' = [ pc EXCEPT ![t] = "declaration" ]
    /\ UNCHANGED << message, cpu, to_chars, avx512_available, scalar_result,
                    simd_result, auto_result, delimiter, scalar_positions,
                    simd_positions, unit_vars, frames, detect_vars, observed, guard >>

\* the guard says initialized: t goes past the declaration without locking
PassDeclaration(t) ==
    /\ pc[t] = "declaration"
    /\ guard = "done"
    /\ pc' = [ pc EXCEPT ![t] = "branch" ]
    /\ UNCHANGED << message, cpu, to_chars, avx512_available, scalar_result,
                    simd_result, auto_result, delimiter, scalar_positions,
                    simd_positions, unit_vars, frames, detect_vars, observed, guard >>

\* t finds the static uninitialized and takes the guard
GuardAcquire(t) ==
    /\ pc[t] = "declaration"
    /\ guard_acquired(guard)
    /\ guard' = "held"
    /\ pc' = [ pc EXCEPT ![t] = "initializer" ]
    /\ UNCHANGED << message, cpu, to_chars, avx512_available, scalar_result,
                    simd_result, auto_result, delimiter, scalar_positions,
                    simd_positions, unit_vars, frames, detect_vars, observed >>

\* t runs the initializer: avx512_available = has_avx512_support()
RunInitializer(t) ==
    /\ pc[t] = "initializer"
    /\ avx512_available' = [ initialized |-> TRUE, value |-> has_avx512_support(cpu) ]
    /\ hw_queries' = hw_queries + 1
    /\ pc' = [ pc EXCEPT ![t] = "release" ]
    /\ UNCHANGED << message, cpu, to_chars, scalar_result, simd_result,
                    auto_result, delimiter, scalar_positions, simd_positions,
                    unit_vars, frames, support_results, auto_routes, observed, guard >>

\* t marks the static initialized and wakes the waiting threads
GuardRelease(t) ==
    /\ pc[t] = "release"
    /\ guard' = "done"
    /\ pc' = [ pc EXCEPT ![t] = "branch" ]
    /\ UNCHANGED << message, cpu, to_chars, avx512_available, scalar_result,
                    simd_result, auto_result, delimiter, scalar_positions,
                    simd_positions, unit_vars, frames, detect_vars, observed >>

\* if (avx512_available) return parse_simd(message); else return parse_scalar(message);
Route(t) ==
    /\ pc[t] = "branch"
    /\ ~Crashed
    /\ observed' = [ observed EXCEPT ![t] = Append(@, avx512_available) ]
    /\ \E o \in parse_auto(message, avx512_available.value, cpu) : auto_result' = o
    /\ pc' = [ pc EXCEPT ![t] = "idle" ]
    /\ UNCHANGED << message, cpu, to_chars, avx512_available, scalar_result,
                    simd_result, delimiter, scalar_positions, simd_positions,
                    unit_vars, frames, detect_vars, guard >>

NextThreads ==
    \E t \in Threads :
        \/ CallParseAuto(t)
        \/ PassDeclaration(t)
        \/ GuardAcquire(t)
        \/ RunInitializer(t)
        \/ GuardRelease(t)
        \/ Route(t)

SpecThreads == InitThreads /\ [][NextThreads]_vars

(***************************************************************************)
(* Re-entrancy: threads parse buffers of their own at the same time, one   *)
(* loop iteration at a step.  delimiters, start and result are automatic   *)
(* variables of the call (parser.hpp 179, 186, 189).                       *)
(***************************************************************************)
\* a slip: the locals of the parse functions declared static, one copy for
\* all calls
frame_of_static(t) == 1

\* where the locals of the call of thread t live: in its own stack frame
frame_of(t) == t

\* the locals the call of thread t works on
locals_of(t) == frames[frame_of(t)].locals

\* the frames after thread t has stored locals l and has moved on
frames_after(t, l, control) ==
    [ [ frames EXCEPT ![frame_of(t)].locals = l ] EXCEPT
          ![t].at = control.at,
          ![t].entry = control.entry,
          ![t].scanner = control.scanner,
          ![t].result = control.result ]

\* the entry points a caller uses on machine c: parse_simd only where the
\* hardware executes it
EntriesOn(c) ==
    { "parse_scalar", "parse_auto" }
        \cup (IF avx512_executes(c) THEN { "parse_simd" } ELSE { })

\* the scanner an entry point goes through, flag the value of the static
scanner_of(entry, flag) ==
    IF entry = "parse_simd" \/ (entry = "parse_auto" /\ flag)
    THEN "find_delimiters_simd"
    ELSE "find_delimiters_scalar"

InitReentrant ==
    /\ InitCommon
    /\ cpu \in Machines
    /\ call = NoCall
    /\ message = << >>
    /\ to_chars = TRUE
    /\ delimiter = "|"

\* thread t calls an entry point on its input:  FIXMessage result;
\* if (message.empty()) return result;   parse_auto reads its static first
EnterParse(t) ==
    /\ frames[t].at = "idle"
    /\ \E e \in EntriesOn(cpu) :
           /\ frames' =
                  frames_after(t, EntryLocals,
                      [ at      |-> IF frames[t].input = << >> THEN "returned" ELSE "scan",
                        entry   |-> e,
                        scanner |-> scanner_of(e, static_avx512_available),
                        result  |-> IF frames[t].input = << >> THEN EmptyResult
                                    ELSE NoResult ])
           /\ avx512_available' =
                  IF e = "parse_auto"
                  THEN [ initialized |-> TRUE, value |-> static_avx512_available ]
                  ELSE avx512_available
           /\ hw_queries' =
                  IF e = "parse_auto"
                  THEN hw_queries + initializer_runs(avx512_available)
                  ELSE hw_queries
    /\ UNCHANGED << message, cpu, to_chars, scalar_result, simd_result,
                    auto_result, delimiter, scalar_positions, simd_positions,
                    unit_vars, support_results, auto_routes, pc, observed, guard >>

\* auto delimiters = find_delimiters_...(message, FIX_DELIMITER);  size_t start = 0;
ScanDelimiters(t) ==
    /\ frames[t].at = "scan"
    /\ frames' =
           frames_after(t,
               [ locals_of(t) EXCEPT
                   !.delimiters =
                       IF frames[t].scanner = "find_delimiters_simd"
                       THEN find_delimiters_simd(frames[t].input, "|")
                       ELSE find_delimiters_scalar(frames[t].input, "|"),
                   !.k = 1,
                   !.start = 0 ],
               [ frames[t] EXCEPT !.at = "loop" ])
    /\ UNCHANGED << message, cpu, to_chars, avx512_available, scalar_result,
                    simd_result, auto_result, delimiter, scalar_positions,
                    simd_positions, unit_vars, detect_vars, pc, observed, guard >>

\* the locals after one iteration of  for (size_t delim_pos : delimiters)
iteration(sv, l) ==
    [ l EXCEPT
        !.run = note_start(field_step(sv, l.delimiters[l.k], l.start, l.run),
                           next_start(l.delimiters[l.k])),
        !.start = next_start(l.delimiters[l.k]),
        !.k = l.k + 1 ]

\* one iteration of the delimiter loop in the call of thread t
FieldIteration(t) ==
    /\ frames[t].at = "loop"
    /\ locals_of(t).k <= Len(locals_of(t).delimiters)
    /\ ~locals_of(t).run.raised
    /\ frames' = frames_after(t, iteration(view_of(frames[t].input), locals_of(t)),
                               frames[t])
    /\ UNCHANGED << message, cpu, to_chars, avx512_available, scalar_result,
                    simd_result, auto_result, delimiter, scalar_positions,
                    simd_positions, unit_vars, detect_vars, pc, observed, guard >>

\* the loop is over: the last field, result.valid, return result;
ReturnResult(t) ==
    /\ frames[t].at = "loop"
    /\ locals_of(t).k > Len(locals_of(t).delimiters) \/ locals_of(t).run.raised
    /\ frames' =
           frames_after(t, locals_of(t),
               [ frames[t] EXCEPT
                   !.at = "returned",
                   !.result = parse_result(last_field(view_of(frames[t].input),
                                                      locals_of(t).start,
                                                      locals_of(t).run),
                                           frames[t].scanner) ])
    /\ UNCHANGED << message, cpu, to_chars, avx512_available, scalar_result,
                    simd_result, auto_result, delimiter, scalar_positions,
                    simd_positions, unit_vars, detect_vars, pc, observed, guard >>

NextReentrant ==
    \E t \in Threads :
        \/ EnterParse(t)
        \/ ScanDelimiters(t)
        \/ FieldIteration(t)
        \/ ReturnResult(t)

SpecReentrant == InitReentrant /\ [][NextReentrant]_vars

(***************************************************************************)
(* Properties.                                                             *)
(***************************************************************************)
Returned(r) == r.status = "returned"

\* the results the entry points have returned so far
ReturnedResults == { r \in { scalar_result, simd_result, auto_result } : Returned(r) }

\* the offsets of the delimiter byte in the input, by definition
DelimiterOffsets(data, delim) == { i \in 0 .. Len(data) - 1 : At(data, i) = delim }

\* C1: whenever both scanners have returned for the same text and delimiter
\* byte, find_delimiters_simd returned exactly the sequence of offsets
\* find_delimiters_scalar returned (empty text, text shorter than a chunk,
\* exactly one chunk, several chunks and a remainder alike).
C1_ScannersAgree ==
    (Returned(scalar_positions) /\ Returned(simd_positions))
        => simd_positions.positions = scalar_positions.positions

\* C1 witness: both scanners returned on a text of two chunks and a
\* remainder, with delimiters found in a chunk and in the remainder
C1_Witness ==
    /\ Returned(scalar_positions) /\ Returned(simd_positions)
    /\ Len(message) > 2 * SIMD_WIDTH
    /\ Len(message) % SIMD_WIDTH # 0
    /\ \E i \in DOMAIN simd_positions.positions :
           simd_positions.positions[i] < SIMD_WIDTH
    /\ \E i \in DOMAIN simd_positions.positions :
           simd_positions.positions[i] >= 2 * SIMD_WIDTH

\* C2: whenever parse_scalar and parse_simd have both returned for the same
\* text, the two records are equal in every slot: valid, message_type, symbol,
\* sender, target, side, quantity and price.
C2_ScalarSimdSameRecord ==
    (Returned(scalar_result) /\ Returned(simd_result)) =>
        /\ simd_result.msg.valid = scalar_result.msg.valid
        /\ simd_result.msg.message_type = scalar_result.msg.message_type
        /\ simd_result.msg.symbol = scalar_result.msg.symbol
        /\ simd_result.msg.sender = scalar_result.msg.sender
        /\ simd_result.msg.target = scalar_result.msg.target
        /\ simd_result.msg.side = scalar_result.msg.side
        /\ simd_result.msg.quantity = scalar_result.msg.quantity
        /\ simd_result.msg.price = scalar_result.msg.price

\* C2 witness: both parsers returned a valid record for a text longer than one
\* chunk, whose first chunk holds at least two delimiters
C2_Witness ==
    /\ Returned(scalar_result) /\ Returned(simd_result)
    /\ Len(message) > SIMD_WIDTH
    /\ Cardinality({ i \in DelimiterOffsets(message, "|") : i < SIMD_WIDTH }) >= 2
    /\ simd_result.msg.valid
    /\ simd_result.msg.symbol.str = << "A" >>

\* C3: once parse_auto has returned, the static flag is set, the call went
\* through the vectorized scanner if the flag is true and through the scalar
\* scanner if it is false, and on either route the record is the one
\* parse_scalar returns for the text.
C3_AutoSameAsScalar ==
    Returned(auto_result) =>
        /\ avx512_available.initialized
        /\ message # << >> =>
               auto_result.scanner = IF avx512_available.value
                                     THEN "find_delimiters_simd"
                                     ELSE "find_delimiters_scalar"
        /\ Returned(scalar_result) => auto_result.msg = scalar_result.msg

\* C3 witness: parse_auto took the vectorized route on a text longer than one
\* chunk and returned the valid record parse_scalar returned
C3_Witness ==
    /\ Returned(auto_result) /\ Returned(scalar_result)
    /\ avx512_available.value
    /\ Len(message) > SIMD_WIDTH
    /\ auto_result.msg.valid
    /\ auto_result.msg = scalar_result.msg

\* C3, the other route: parse_auto took the scalar route and returned a valid record
C3_ScalarRouteReached ==
    /\ Returned(auto_result) /\ Returned(scalar_result)
    /\ ~avx512_available.value
    /\ auto_result.msg.valid

(***************************************************************************)
(* The fields of a text, read off the text itself (not off the parse      *)
(* loop): a field is a maximal non-empty run of bytes without '|'.         *)
(***************************************************************************)
Boundaries(data) == { -1 } \cup DelimiterOffsets(data, "|") \cup { Len(data) }

\* the fields, each as [b, e]: the bytes at offsets b .. e - 1
FieldsOf(data) ==
    LET B == Boundaries(data)
    IN  { [ b |-> x + 1, e |-> Min({ y \in B : y > x }) ] :
          x \in { y \in B : y < Len(data) /\ y + 1 \notin B } }

EqOffsets(data, f) == { i \in f.b .. f.e - 1 : At(data, i) = "=" }

\* no '=' in the field, or '=' as its first byte
Malformed(data, f) == EqOffsets(data, f) = {} \/ f.b \in EqOffsets(data, f)

FirstEq(data, f) == Min(EqOffsets(data, f))

KeyText(data, f) == Substr(data, f.b, FirstEq(data, f) - f.b)

ValueText(data, f) == Substr(data, FirstEq(data, f) + 1, f.e - FirstEq(data, f) - 1)

\* the value of a well-formed field as a view into the input
ValueView(data, f) == [ off |-> FirstEq(data, f) + 1, str |-> ValueText(data, f) ]

\* the well-formed fields
WellFormedFields(data) == { f \in FieldsOf(data) : ~Malformed(data, f) }

\* the well-formed fields, each with its key identifier and its value
KeyedFields(data) ==
    { [ b |-> f.b, e |-> f.e, key |-> parse_int(KeyText(data, f)),
        value |-> ValueView(data, f) ] : f \in WellFormedFields(data) }

\* the well-formed fields whose key identifier is k
Occurrences(data, k) == { f \in KeyedFields(data) : f.key = k }

\* the last of a non-empty set of fields, in input order
LastOf(fs) == CHOOSE f \in fs : \A g \in fs : g.b <= f.b

\* data with field f, and the delimiter that ends it, cut out
Without(data, f) ==
    SubSeq(data, 1, f.b) \o
    SubSeq(data, (IF f.e < Len(data) THEN f.e + 1 ELSE f.e) + 1, Len(data))

RecognizedTags == { MessageType, Symbol, SenderCompID, TargetCompID, Side, Price, OrderQty }

\* a record by the contents of its slots (what EXPECT_EQ on a string_view compares)
Contents(msg) ==
    [ message_type |-> msg.message_type.str, symbol |-> msg.symbol.str,
      sender |-> msg.sender.str, target |-> msg.target.str,
      side |-> msg.side, price |-> msg.price, quantity |-> msg.quantity,
      valid |-> msg.valid ]

\* the slot populate_message writes for a recognized tag
SlotOf(msg, k) ==
    CASE k = MessageType  -> msg.message_type
      [] k = Symbol       -> msg.symbol
      [] k = SenderCompID -> msg.sender
      [] k = TargetCompID -> msg.target
      [] k = Side         -> msg.side
      [] k = Price        -> msg.price
      [] k = OrderQty     -> msg.quantity

\* what the value of a keyed field is written as into the slot of its tag
Converted(f) ==
    CASE f.key \in { MessageType, Symbol, SenderCompID, TargetCompID } -> f.value
      [] f.key \in { Side, OrderQty } -> parse_int(f.value.str)
      [] f.key = Price -> parse_double(f.value.str)

\* of the keyed fields kf, whether the last one with key k has a non-empty value
LastValueNonEmpty(kf, k) ==
    LET occ == { f \in kf : f.key = k }
    IN  occ # {} /\ LastOf(occ).value.str # << >>

\* C4: every returned record has valid = true if and only if its message_type
\* slot and its symbol slot are both non-empty, these slots being what the
\* last well-formed field of key 35 and of key 55 in the input left in them.
C4_ValidIffTypeAndSymbol ==
    ReturnedResults # {} =>
        LET kf   == KeyedFields(message)
            both == /\ LastValueNonEmpty(kf, MessageType)
                    /\ LastValueNonEmpty(kf, Symbol)
        IN  \A r \in ReturnedResults :
                /\ r.msg.valid <=> (r.msg.message_type.str # << >>
                                      /\ r.msg.symbol.str # << >>)
                /\ r.msg.valid <=> both

\* C4 witness: a valid record returned for a text of at least three fields
C4_Witness ==
    /\ Returned(simd_result)
    /\ simd_result.msg.valid
    /\ Len(simd_result.fields) >= 3

\* C4, the other side: an invalid record whose symbol slot is set
C4_InvalidReached ==
    /\ Returned(scalar_result)
    /\ ~scalar_result.msg.valid
    /\ scalar_result.msg.symbol.str # << >>

\* C5: in every returned record the slot of a recognized key that occurs in
\* the input holds the value of the last well-formed field with that key, in
\* input order, whatever the earlier fields with that key held.
C5_LastOccurrenceWins ==
    ReturnedResults # {} =>
        LET kf == KeyedFields(message)
        IN  \A k \in RecognizedTags \cap { f.key : f \in kf } :
                LET want == Converted(LastOf({ f \in kf : f.key = k }))
                IN  \A r \in ReturnedResults : SlotOf(r.msg, k) = want

\* C5 witness: "35=D|49=S|56=T|55=A|55=B|" parsed, the symbol slot holds "B"
C5_Witness ==
    /\ message = << "3", "5", "=", "D", "|", "4", "9", "=", "S", "|",
                    "5", "6", "=", "T", "|", "5", "5", "=", "A", "|",
                    "5", "5", "=", "B", "|" >>
    /\ Returned(auto_result)
    /\ Cardinality(Occurrences(message, Symbol)) = 2
    /\ auto_result.msg.symbol.str = << "B" >>
    /\ auto_result.msg.valid

\* C6: for the empty text every entry point that was called has returned (on
\* any machine), and returned the default record: the four text slots empty,
\* side 0, quantity 0, price 0, valid false.
C6_EmptyTextDefaultRecord ==
    message = << >> =>
        \A r \in { scalar_result, simd_result, auto_result } :
            r.status # "none" =>
                /\ Returned(r)
                /\ r.msg.message_type.str = << >> /\ r.msg.symbol.str = << >>
                /\ r.msg.sender.str = << >> /\ r.msg.target.str = << >>
                /\ r.msg.side = 0 /\ r.msg.quantity = 0
                /\ r.msg.price = Dec(0, 0)
                /\ r.msg.valid = FALSE

\* C6 witness: the empty text parsed through all three entry points on a
\* machine without AVX-512
C6_Witness ==
    /\ message = << >>
    /\ ~avx512_executes(cpu)
    /\ Returned(scalar_result) /\ Returned(simd_result) /\ Returned(auto_result)
    /\ auto_result.msg = FIXMessage

\* C7: a non-empty field with no '=' or with '=' as its first byte changes
\* nothing: every returned record has the slot contents of the record parsed
\* from the text with that field cut out, so the fields after it are applied
\* as they are without it.
C7_MalformedFieldDropped ==
    ReturnedResults # {} =>
        \A f \in FieldsOf(message) :
            Malformed(message, f) =>
                LET without == Contents(parse_scalar(Without(message, f)).msg)
                IN  \A r \in ReturnedResults : Contents(r.msg) = without

\* C7 witness: "35D|55=A|" parsed: symbol "A", no message type, invalid
C7_Witness ==
    /\ message = << "3", "5", "D", "|", "5", "5", "=", "A", "|" >>
    /\ Returned(auto_result)
    /\ auto_result.msg.symbol.str = << "A" >>
    /\ auto_result.msg.message_type.str = << >>
    /\ ~auto_result.msg.valid

\* C7, the other form: a field starting with '=' followed by a well-formed field
C7_LeadingEqReached ==
    /\ message = << "=", "D", "|", "5", "5", "=", "A", "|" >>
    /\ Returned(scalar_result)
    /\ scalar_result.msg.symbol.str = << "A" >>

\* C8: a well-formed field whose key identifier is not one of 35, 55, 49, 56,
\* 54, 44, 38 changes no slot: populate_message leaves the returned record as
\* it is, and the record has the slot contents of the record parsed from the
\* text with that field cut out.
C8_UnrecognizedKeyIgnored ==
    ReturnedResults # {} =>
        \A f \in WellFormedFields(message) :
            LET tag == parse_int(KeyText(message, f))
            IN  tag \notin RecognizedTags =>
                    LET without == Contents(parse_scalar(Without(message, f)).msg)
                    IN  \A r \in ReturnedResults :
                            /\ populate_message(r.msg, tag, ValueView(message, f)) = r.msg
                            /\ Contents(r.msg) = without

\* C8 witness: "35=D|49=S|56=T|55=A|8=F|" parsed: the record of the text
\* without its last field
C8_Witness ==
    /\ message = << "3", "5", "=", "D", "|", "4", "9", "=", "S", "|",
                    "5", "6", "=", "T", "|", "5", "5", "=", "A", "|",
                    "8", "=", "F", "|" >>
    /\ Returned(scalar_result)
    /\ Occurrences(message, BeginString) # {}
    /\ scalar_result.msg.valid
    /\ scalar_result.msg.message_type.str = << "D" >>

\* C8, the declared tag 9: a field of key 9 between set slots
C8_BodyLengthReached ==
    /\ Returned(simd_result)
    /\ Occurrences(message, BodyLength) # {}
    /\ simd_result.msg.symbol.str # << >>

\* C9: no field the tokenizer slices is of zero length, and a non-empty text
\* made only of '|' bytes yields no field and the default, invalid record.
C9_NoZeroLengthField ==
    \A r \in ReturnedResults :
        /\ \A i \in DOMAIN r.fields : r.fields[i].len > 0
        /\ (message # << >> /\ DelimiterOffsets(message, "|") = 0 .. Len(message) - 1) =>
               (r.fields = << >> /\ r.msg = FIXMessage)

\* C9 witness: "||" parsed
C9_Witness ==
    /\ message = << "|", "|" >>
    /\ Returned(scalar_result) /\ Returned(auto_result)
    /\ auto_result.msg = FIXMessage

\* C9, the other cases: a delimiter at offset 0 and two adjacent delimiters
\* in a text whose fields are parsed
C9_EmptyStretchesReached ==
    /\ Returned(scalar_result)
    /\ scalar_result.fields # << >>
    /\ \/ At(message, 0) = "|"
       \/ \E i \in DelimiterOffsets(message, "|") : i + 1 \in DelimiterOffsets(message, "|")

\* C10: when the text does not end with a delimiter, the bytes after the last
\* delimiter (the whole text, if it holds none) are the last field sliced and
\* no other field is sliced from them, and the record is the one parsed from
\* the text with a delimiter appended.
C10_TrailingField ==
    (ReturnedResults # {} /\ message # << >> /\ At(message, Len(message) - 1) # "|") =>
        LET delims     == DelimiterOffsets(message, "|")
            start      == Max(delims \cup { -1 }) + 1
            trailing   == [ off |-> start, len |-> Len(message) - start ]
            terminated == Contents(parse_scalar(message \o << "|" >>).msg)
        IN  \A r \in ReturnedResults :
                /\ r.fields # << >>
                /\ r.fields[Len(r.fields)] = trailing
                /\ delims = {} => Len(r.fields) = 1
                /\ Contents(r.msg) = terminated

\* C10 witness: "35=D|55=A" parsed: symbol "A", valid
C10_Witness ==
    /\ message = << "3", "5", "=", "D", "|", "5", "5", "=", "A" >>
    /\ Returned(auto_result)
    /\ auto_result.msg.symbol.str = << "A" >>
    /\ auto_result.msg.valid

\* C10, a text without any delimiter: one field, the whole text
C10_NoDelimiterReached ==
    /\ Returned(scalar_result)
    /\ message # << >>
    /\ DelimiterOffsets(message, "|") = {}
    /\ scalar_result.fields = << [ off |-> 0, len |-> Len(message) ] >>

\* C11: the list find_delimiters_scalar returned is strictly ascending, holds
\* an offset i if and only if 0 <= i < len(text) and text[i] is the delimiter
\* byte, and is as long as the number of occurrences of that byte.
C11_ScalarScannerExact ==
    Returned(scalar_positions) =>
        LET p == scalar_positions.positions
        IN  /\ \A i \in 1 .. Len(p) - 1 : p[i] < p[i + 1]
            /\ { p[i] : i \in DOMAIN p } = DelimiterOffsets(message, delimiter)
            /\ Len(p) = Cardinality(DelimiterOffsets(message, delimiter))

\* C11 witness: the scalar scanner returned four offsets, the first of them
\* 0 and the last the final byte, for a text that also holds other bytes
C11_Witness ==
    /\ Returned(scalar_positions)
    /\ Len(scalar_positions.positions) = 4
    /\ scalar_positions.positions[1] = 0
    /\ scalar_positions.positions[4] = Len(message) - 1
    /\ Len(message) > SIMD_WIDTH

\* the text slots of a record, each with the key that writes it
TextSlots(msg) ==
    { [ key |-> MessageType, view |-> msg.message_type ],
      [ key |-> Symbol, view |-> msg.symbol ],
      [ key |-> SenderCompID, view |-> msg.sender ],
      [ key |-> TargetCompID, view |-> msg.target ] }

\* C12: every non-empty text slot of a returned record is a contiguous slice
\* of the input buffer: it lies inside the buffer and shows the buffer's
\* bytes, holds no delimiter byte, starts right after the first '=' of the
\* last accepted field with the slot's key, and ends where that field ends,
\* just before a delimiter or at the end of the text.
C12_TextSlotsAreSlices ==
    ReturnedResults # {} =>
        LET kf == KeyedFields(message)
        IN  \A r \in ReturnedResults : \A s \in TextSlots(r.msg) :
                s.view.str # << >> =>
                    LET last == LastOf({ f \in kf : f.key = s.key })
                        stop == s.view.off + Len(s.view.str)
                    IN  /\ 0 <= s.view.off /\ stop <= Len(message)
                        /\ s.view.str = Substr(message, s.view.off, Len(s.view.str))
                        /\ \A i \in DOMAIN s.view.str : s.view.str[i] # "|"
                        /\ s.view.off = FirstEq(message, last) + 1
                        /\ stop = last.e
                        /\ stop = Len(message) \/ At(message, stop) = "|"

\* C12 witness: "55=A|55=B" parsed: the symbol slot is the one byte at offset
\* 8, the last of the buffer
C12_Witness ==
    /\ message = << "5", "5", "=", "A", "|", "5", "5", "=", "B" >>
    /\ Returned(scalar_result)
    /\ scalar_result.msg.symbol = [ off |-> 8, str |-> << "B" >> ]

\* C12, a slot inside the buffer: a sender slot that ends before a delimiter
\* at an offset beyond the first chunk
C12_InnerSlotReached ==
    /\ Returned(simd_result)
    /\ simd_result.msg.sender.str # << >>
    /\ simd_result.msg.sender.off > SIMD_WIDTH
    /\ At(message, simd_result.msg.sender.off + Len(simd_result.msg.sender.str)) = "|"

\* the name of the slot a recognized key is said to write
SlotName(k) ==
    CASE k = 35 -> "message_type" [] k = 55 -> "symbol" [] k = 49 -> "sender"
      [] k = 56 -> "target" [] k = 54 -> "side" [] k = 38 -> "quantity"
      [] k = 44 -> "price"

\* what is said to be written for key k and value v
Written(k, v) ==
    CASE k \in { 35, 55, 49, 56 } -> v
      [] k \in { 54, 38 } -> parse_int(v.str)
      [] k = 44 -> parse_double(v.str)

\* C13: a call populate_message(msg, key, value) with key one of 35, 55, 49,
\* 56, 54, 38, 44 leaves msg with the slot of that key (message_type, symbol,
\* sender, target, side, quantity, price) holding value, parse_int(value) or
\* parse_double(value), and with every other slot, valid included, as it was.
C13_PopulateWritesOneSlot ==
    (call.fn = "populate_message" /\ call.status = "returned"
        /\ call.tag \in { 35, 55, 49, 56, 54, 38, 44 }) =>
        /\ DOMAIN call.result = DOMAIN call.msg
        /\ \A n \in DOMAIN call.msg :
               call.result[n] = IF n = SlotName(call.tag)
                                THEN Written(call.tag, call.value)
                                ELSE call.msg[n]

\* C13 witness: key 44 with value "150.25" on a populated record: price
\* 150.25 written over 2.5, the other slots as they were
C13_Witness ==
    /\ call.fn = "populate_message" /\ call.status = "returned"
    /\ call.tag = 44
    /\ call.msg = PopulatedRecord
    /\ call.result.price = Dec(15025, 2)
    /\ call.result.symbol = PopulatedRecord.symbol
    /\ call.result.quantity = 7

\* the calls of the entry points made so far
Calls == { r \in { scalar_result, simd_result, auto_result } : r.status # "none" }

\* C14: every call of parse_scalar, parse_simd or parse_auto that was made
\* has returned a record: none has raised and none has ended the process;
\* and throughout its field loop the running start offset was at most the
\* length of the text.
C14_ParsersAlwaysReturn ==
    \A r \in Calls :
        /\ r.status = "returned"
        /\ \A i \in DOMAIN r.starts : r.starts[i] <= Len(message)

\* C14, the part that holds: no call throws, and start <= len(text)
\* throughout the field loop of every call
C14_NoOutOfRange ==
    \A r \in Calls :
        /\ r.status # OutOfRange
        /\ \A i \in DOMAIN r.starts : r.starts[i] <= Len(message)

\* C14: a call that ran its field loop to a start offset equal to the length
\* of the text
C14_StartAtEndReached ==
    /\ Returned(scalar_result)
    /\ Len(scalar_result.starts) > 2
    /\ scalar_result.starts[Len(scalar_result.starts)] = Len(message)

\* the calls of parse_auto in which the initializer of the static ran
InitializingCalls == { i \in DOMAIN auto_routes : ~auto_routes[i].initialized_before }

\* C15 as stated: has_avx512_support memoizes its result: over any sequence
\* of its calls in one process the hardware query runs at most once, and
\* every later call returns the value the first call computed.
C15_DetectorMemoizes ==
    /\ hw_queries <= 1
    /\ \A i \in DOMAIN support_results :
           support_results[i].value = support_results[1].value

\* C15 amended: the memoization is the static of parse_auto.  Over any
\* sequence of parse_auto calls the hardware query runs at most once on
\* their behalf, in the first of them, and every later parse_auto call
\* uses the value the first one computed; every direct call of
\* has_avx512_support runs the query again and returns that same value.
C15_ParseAutoMemoizes ==
    /\ hw_queries = Len(support_results) + Cardinality(InitializingCalls)
    /\ InitializingCalls \subseteq { 1 }
    /\ \A i \in DOMAIN auto_routes : auto_routes[i].flag = auto_routes[1].flag
    /\ \A i \in DOMAIN support_results :
           /\ support_results[i].executed # << >>
           /\ support_results[i].value = support_results[1].value
           /\ auto_routes # << >> => support_results[i].value = auto_routes[1].flag
    /\ avx512_available.initialized <=> auto_routes # << >>
    /\ auto_routes # << >> => avx512_available.value = auto_routes[1].flag

\* C15: two parse_auto calls and two direct calls have been made
C15_Witness ==
    /\ Len(auto_routes) >= 2
    /\ Len(support_results) >= 2
    /\ hw_queries = Len(support_results) + 1

\* the threads that are past the declaration in their current call
PastDeclaration == { t \in Threads : pc[t] = "branch" }

\* every value of the static a thread has branched on
Observations == UNION { { observed[t][i] : i \in DOMAIN observed[t] } : t \in Threads }

\* C16: when several threads make their first parse_auto call concurrently
\* the static flag is initialized exactly once (one run of the initializer,
\* by one thread), no thread branches on the flag before it is set, every
\* thread reads the same boolean in its first and in every later call, and
\* the flag never changes once it is set.
C16_InitializedOnce ==
    /\ [](/\ hw_queries <= 1
          /\ Cardinality({ t \in Threads : pc[t] \in { "initializer", "release" } }) <= 1
          /\ avx512_available.initialized <=> hw_queries = 1
          /\ PastDeclaration # {} => guard = "done" /\ avx512_available.initialized
          /\ \A v \in Observations :
                 /\ v.initialized
                 /\ v = avx512_available
                 /\ v.value = has_avx512_support(cpu))
    /\ [][avx512_available.initialized => avx512_available' = avx512_available]_vars

\* C16: in their first calls, one thread waits at the declaration while
\* another one has run the initializer and not yet released the guard
C16_Witness ==
    \E t, u \in Threads :
        /\ pc[t] = "declaration" /\ observed[t] = << >>
        /\ pc[u] = "release" /\ observed[u] = << >>
        /\ guard = "held"
        /\ avx512_available.initialized

\* C16: every thread has made a first and a later call
C16_LaterCallsReached ==
    /\ \A t \in Threads : Len(observed[t]) >= 2
    /\ hw_queries = 1

C18_SimdFallsBackToScalar ==
    simd_result.status # "none" /\ ~has_avx512_support(cpu)
        => /\ simd_result.status = "returned"
           /\ simd_result.msg = parse_scalar(message).msg
           /\ simd_result.scanner # "find_delimiters_simd"

\* the positions of instruction x in the instruction sequence e
PositionsOf(e, x) == { i \in DOMAIN e : e[i] = x }

\* C19: has_avx512_support returns true exactly when CPUID leaf 1 succeeds
\* with OSXSAVE set, CPUID leaf 7 succeeds with AVX512F and AVX512BW set,
\* and XCR0 has all bits of 0xE6 set; in every other case it returns false
\* (the call returns, it does not raise); and it executes XGETBV only
\* after a CPUID leaf 1 that succeeded with OSXSAVE set.
C19_DetectorTruthTable ==
    \A i \in DOMAIN support_results :
        /\ support_results[i].value \in BOOLEAN
        /\ support_results[i].value
               <=> /\ cpu.cpuid1 /\ cpu.osxsave
                   /\ cpu.cpuid7 /\ cpu.avx512f /\ cpu.avx512bw
                   /\ cpu.xcr0_e6
        /\ \A j \in PositionsOf(support_results[i].executed, Xgetbv) :
               /\ cpu.cpuid1 /\ cpu.osxsave
               /\ \E k \in PositionsOf(support_results[i].executed, CpuidLeaf1) : k < j
        /\ cpu.cpuid1 /\ cpu.osxsave /\ cpu.cpuid7
               <=> PositionsOf(support_results[i].executed, Xgetbv) # {}

\* C19: a call on a machine that reports AVX512F and AVX512BW but not
\* OSXSAVE has returned false without executing XGETBV
C19_Witness ==
    /\ support_results # << >>
    /\ cpu.cpuid1 /\ ~cpu.osxsave /\ cpu.cpuid7 /\ cpu.avx512f /\ cpu.avx512bw
    /\ ~support_results[1].value
    /\ PositionsOf(support_results[1].executed, Xgetbv) = {}

\* C19: a call has returned true, after executing XGETBV
C19_TrueReached ==
    /\ support_results # << >>
    /\ support_results[1].value
    /\ PositionsOf(support_results[1].executed, Xgetbv) # {}

\* the length of the optional '-' at the head of str
SignLen(str) == IF str # << >> /\ str[1] = "-" THEN 1 ELSE 0

\* the offset behind the longest run of decimal digits that follows the sign
MatchEnd(str) ==
    Min({ i \in SignLen(str) .. Len(str) : i = Len(str) \/ str[i + 1] \notin Digits })

\* str has a leading match of an optional '-' and one or more digits
HasLeadingMatch(str) == MatchEnd(str) > SignLen(str)

\* the digits of the leading match, without its leading zeros (one is kept)
MatchDigits(str) ==
    SubSeq(str,
           Min({ i \in SignLen(str) + 1 .. MatchEnd(str) :
                    i = MatchEnd(str) \/ str[i] # "0" }),
           MatchEnd(str))

RECURSIVE Decimal(_)
\* the number a run of at most nine digits denotes
Decimal(ds) ==
    IF ds = << >> THEN 0
    ELSE 10 * Decimal(SubSeq(ds, 1, Len(ds) - 1)) + DigitVal(ds[Len(ds)])

\* the upper and the lower half of a run of ten digits
UpperHalf(ds) == Decimal(SubSeq(ds, 1, 5))

LowerHalf(ds) == Decimal(SubSeq(ds, 6, 10))

\* the leading match of str denotes a value in [-2147483648, 2147483647]
MatchInRange(str) ==
    \/ Len(MatchDigits(str)) < 10
    \/ /\ Len(MatchDigits(str)) = 10
       /\ \/ UpperHalf(MatchDigits(str)) < 21474
          \/ /\ UpperHalf(MatchDigits(str)) = 21474
             /\ LowerHalf(MatchDigits(str)) <= 83647 + SignLen(str)

\* the value the leading match of str denotes, when it is in range
MatchValue(str) ==
    IF Len(MatchDigits(str)) < 10
    THEN (1 - 2 * SignLen(str)) * Decimal(MatchDigits(str))
    ELSE (1 - 2 * SignLen(str)) * UpperHalf(MatchDigits(str)) * 100000
             + (1 - 2 * SignLen(str)) * LowerHalf(MatchDigits(str))

\* C20: for a text whose longest leading match of an optional '-' and one
\* or more decimal digits denotes a value in [-2147483648, 2147483647],
\* parse_int returns exactly that value, whatever follows the match; for a
\* text with no such leading match it returns 0.
C20_ParseIntLeadingMatch ==
    call.fn = "parse_int" /\ call.status = "returned"
        => /\ HasLeadingMatch(call.str) /\ MatchInRange(call.str)
                  => call.result = MatchValue(call.str)
           /\ ~HasLeadingMatch(call.str) => call.result = 0

\* C20: parse_int has returned the least int32_t for a text that goes on
\* behind the match
C20_Witness ==
    /\ call.fn = "parse_int" /\ call.status = "returned"
    /\ call.str = << "-", "2", "1", "4", "7", "4", "8", "3", "6", "4", "8", "x" >>
    /\ call.result = INT32_MIN

\* C20: parse_int has returned 0 for a text that starts with '+'
C20_NoMatchReached ==
    /\ call.fn = "parse_int" /\ call.status = "returned"
    /\ call.str = << "+", "5" >>
    /\ call.result = 0

\* C20: parse_int has returned a value for a match written with leading zeros
C20_LeadingZerosReached ==
    /\ call.fn = "parse_int" /\ call.status = "returned"
    /\ call.str = << "-", "0", "0", "7", ".", "5" >>
    /\ call.result = -7

\* the bytes a decimal number can begin with
NumberStarts == Digits \cup { "-", "." }

\* C21: when the value of a numeric key (side 54, quantity 38, price 44)
\* begins with content that cannot be parsed as a number, the slot of the
\* key is zero after the call ("54=abc" gives side 0, "44=x5" price 0).
C21_UnparseableYieldsZero ==
    (/\ call.fn = "populate_message" /\ call.status = "returned"
     /\ call.value.str # << >> /\ call.value.str[1] \notin NumberStarts)
        => /\ call.tag = Side => call.result.side = 0
           /\ call.tag = OrderQty => call.result.quantity = 0
           /\ call.tag = Price => call.result.price = Dec(0, 0)

\* C21, the part that holds: the integer slots side and quantity are zero
\* for such a value
C21_UnparseableIntYieldsZero ==
    (/\ call.fn = "populate_message" /\ call.status = "returned"
     /\ call.value.str # << >> /\ call.value.str[1] \notin NumberStarts)
        => /\ call.tag = Side => call.result.side = 0
           /\ call.tag = OrderQty => call.result.quantity = 0

\* texts in exponential notation: the value of the part before the exponent
\* marker, the exponent-scaled value, and the value of the digits before
\* the first '.' read as one number with the fraction digits behind it
ExponentCases ==
    { [ str |-> << "1", "e", "5" >>,
        before |-> Dec(1, 0), scaled |-> Dec(1, -5), digits |-> Dec(15, 0) ],
      [ str |-> << "1", ".", "5", "e", "3" >>,
        before |-> Dec(15, 1), scaled |-> Dec(15, -2), digits |-> Dec(15, 1) ],
      [ str |-> << "2", "e", "-", "3" >>,
        before |-> Dec(2, 0), scaled |-> Dec(2, 3), digits |-> Dec(23, 0) ],
      [ str |-> << "-", "1", "E", "2" >>,
        before |-> Dec(-1, 0), scaled |-> Dec(-1, -2), digits |-> Dec(-12, 0) ] }

\* the exponent cases the returned call of parse_double is about
ExponentCalls ==
    { c \in ExponentCases :
        call.fn = "parse_double" /\ call.status = "returned" /\ call.str = c.str }

C22_ManualReached ==
    /\ call.fn = "parse_double" /\ call.status = "returned"
    /\ call.str = << "1", "e", "5" >>
    /\ ~to_chars
    /\ call.result = Dec(15, 0)

\* what an entry point returns for data when it is the only call running
RunAlone(entry, data) ==
    CASE entry = "parse_scalar" -> { parse_scalar(data) }
      [] entry = "parse_simd" -> parse_simd(data, cpu)
      [] entry = "parse_auto" -> parse_auto(data, has_avx512_support(cpu), cpu)

\* C23: the parse entry points keep no state between calls other than the
\* cached capability flag: in every interleaving of calls that run at the
\* same time on inputs of their own, each call returns the record the same
\* entry point returns for that input when run alone, and a step of one
\* call changes nothing but that call's own frame and (parse_auto) the flag.
C23_Reentrant ==
    /\ [](\A t \in Threads :
              frames[t].at = "returned"
                  => frames[t].result \in RunAlone(frames[t].entry, frames[t].input))
    /\ [][/\ \E t \in Threads : \A u \in Threads \ { t } : frames'[u] = frames[u]
          /\ UNCHANGED << scalar_result, simd_result, auto_result,
                          scalar_positions, simd_positions, call >>
          /\ avx512_available.initialized => avx512_available' = avx512_available]_vars

\* C23: two calls are in the middle of their delimiter loops at the same
\* time, and a third has already returned
C23_Witness ==
    \E t, u, v \in Threads :
        /\ t # u
        /\ frames[t].at = "loop" /\ frames[t].locals.k = 2
        /\ frames[u].at = "loop" /\ frames[u].locals.k = 2
        /\ frames[t].entry # frames[u].entry
        /\ frames[v].at = "returned" /\ frames[v].result.msg.valid

\* the byte offsets a call examined, in the order it examined them: the 64
\* bytes of each chunk load, then the bytes of the tail loop
Examined(reads) ==
    [ i \in 1 .. SIMD_WIDTH * Len(reads.loads) + Len(reads.tail) |->
        IF i <= SIMD_WIDTH * Len(reads.loads)
        THEN reads.loads[((i - 1) \div SIMD_WIDTH) + 1] + ((i - 1) % SIMD_WIDTH)
        ELSE reads.tail[i - SIMD_WIDTH * Len(reads.loads)] ]

\* C24: on a text of length n find_delimiters_simd makes exactly n div 64
\* chunk comparisons, at the offsets 0, 64, 128, .., each on the 64 bytes
\* [pos, pos + 64) inside the text; its tail loop examines exactly the last
\* n mod 64 bytes; so every offset below n is examined exactly once, in
\* ascending order, and no byte at or beyond offset n is read.
C24_ChunksThenTail ==
    simd_positions.status = "returned"
        => /\ Len(simd_positions.reads.loads) = Len(message) \div 64
           /\ \A k \in DOMAIN simd_positions.reads.loads :
                  /\ simd_positions.reads.loads[k] = 64 * (k - 1)
                  /\ simd_positions.reads.loads[k] + 64 <= Len(message)
           /\ Len(simd_positions.reads.tail) = Len(message) % 64
           /\ \A k \in DOMAIN simd_positions.reads.tail :
                  simd_positions.reads.tail[k]
                      = Len(message) - (Len(message) % 64) + (k - 1)
           /\ Examined(simd_positions.reads) = [ i \in 1 .. Len(message) |-> i - 1 ]

\* C24: a call on a text of two full chunks and a tail has returned
C24_Witness ==
    /\ simd_positions.status = "returned"
    /\ Len(simd_positions.reads.loads) = 2
    /\ simd_positions.reads.tail # << >>

\* C24: a call on a text shorter than one chunk has returned
C24_TailOnlyReached ==
    /\ simd_positions.status = "returned"
    /\ simd_positions.reads.loads = << >>
    /\ Len(simd_positions.reads.tail) = 63

\* C24: a call on a text of exactly two chunks has returned
C24_NoTailReached ==
    /\ simd_positions.status = "returned"
    /\ Len(message) = 128
    /\ simd_positions.reads.tail = << >>

\* the sequence q is strictly ascending
StrictlyAscending(q) == \A i \in 1 .. Len(q) - 1 : q[i] < q[i + 1]

\* C25: within one chunk the mask loop of find_delimiters_simd appends
\* chunk base + bit position for the set bits of the match mask in
\* increasing bit order and stops after exactly as many iterations as the
\* mask has set bits; with the chunks visited in ascending order the
\* output list is strictly ascending.
C25_MaskLoop ==
    simd_positions.status = "returned"
        => /\ \A k \in DOMAIN simd_positions.reads.chunks :
                  /\ Len(simd_positions.reads.chunks[k].appended)
                         = Cardinality(simd_positions.reads.chunks[k].mask)
                  /\ { simd_positions.reads.chunks[k].appended[i] :
                          i \in DOMAIN simd_positions.reads.chunks[k].appended }
                         = { simd_positions.reads.chunks[k].pos + b :
                               b \in simd_positions.reads.chunks[k].mask }
                  /\ StrictlyAscending(simd_positions.reads.chunks[k].appended)
                  /\ k > 1 => simd_positions.reads.chunks[k - 1].pos
                                  < simd_positions.reads.chunks[k].pos
           /\ StrictlyAscending(simd_positions.positions)

\* C25: a call has returned after two chunks, one with all 64 bits set in
\* its mask and one with fewer
C25_Witness ==
    /\ simd_positions.status = "returned"
    /\ Len(simd_positions.reads.chunks) = 2
    /\ Len(simd_positions.reads.chunks[2].appended) = 64
    /\ Len(simd_positions.reads.chunks[1].appended) \in 2 .. 63

\* C25: a chunk with an empty mask (no iteration) followed by a chunk with
\* set bits
C25_EmptyMaskReached ==
    /\ simd_positions.status = "returned"
    /\ Len(simd_positions.reads.chunks) = 2
    /\ simd_positions.reads.chunks[1].mask = {}
    /\ simd_positions.reads.chunks[2].mask # {}

\* the offsets of the '=' bytes of the text t
EqualsIn(t) == { i \in 0 .. Len(t) - 1 : t[i + 1] = "=" }

\* the field of a returned split_field call has an '=' that is not its
\* first byte
SplitHere ==
    /\ call.fn = "split_field" /\ call.status = "returned"
    /\ EqualsIn(call.field.str) # {}
    /\ 0 \notin EqualsIn(call.field.str)

\* C26: a non-empty field is split at its first '=' only: the key text is
\* everything before it, the value everything after it, further '=' bytes
\* included ("55=A=B" gives the value "A=B"), and a field that ends in '='
\* is accepted with an empty value.
C26_SplitAtFirstEq ==
    SplitHere
        => /\ call.result.ok /\ ~call.result.raised
           /\ call.result.tag
                  = parse_int(SubSeq(call.field.str, 1, Min(EqualsIn(call.field.str))))
           /\ call.result.value.str
                  = SubSeq(call.field.str, Min(EqualsIn(call.field.str)) + 2,
                           Len(call.field.str))
           /\ call.result.value.off
                  = call.field.off + Min(EqualsIn(call.field.str)) + 1

\* C26: split_field has returned the value "A=B" for the field "55=A=B"
C26_Witness ==
    /\ SplitHere
    /\ call.field.str = << "5", "5", "=", "A", "=", "B" >>
    /\ call.result.tag = 55
    /\ call.result.value.str = << "A", "=", "B" >>

\* C26: split_field has accepted the field "35=" with an empty value
C26_EmptyValueReached ==
    /\ SplitHere
    /\ call.field.str = << "3", "5", "=" >>
    /\ call.result.ok /\ call.result.tag = 35
    /\ call.result.value.str = << >>

\* C26: parse_scalar has returned the symbol "A=B" for the text "55=A=B"
C26_SymbolReached ==
    /\ call.fn = "parse_scalar" /\ call.status = "returned"
    /\ call.str = << "5", "5", "=", "A", "=", "B" >>
    /\ call.result.msg.symbol.str = << "A", "=", "B" >>

\* the slots of msg that differ from the default record
FilledSlots(msg) ==
    { n \in { "message_type", "symbol", "sender", "target", "side", "price", "quantity" } :
        msg[n] # FIXMessage[n] }

\* C27: for a text that contains no '|' byte every record parse_scalar,
\* parse_simd or parse_auto returns has valid = false: the whole text is
\* one field, which fills at most one slot, and validity needs both the
\* message type and the symbol.
C27_NoDelimiterInvalid ==
    DelimiterOffsets(message, "|") = {}
        => \A r \in ReturnedResults :
               /\ ~r.msg.valid
               /\ Len(r.fields) <= 1
               /\ \A i \in DOMAIN r.fields : r.fields[i] = [ off |-> 0, len |-> Len(message) ]
               /\ Cardinality(FilledSlots(r.msg)) <= 1

\* C27: the three entry points have returned for the text "35=D", with the
\* message type filled and valid false
C27_Witness ==
    /\ message = << "3", "5", "=", "D" >>
    /\ Cardinality(ReturnedResults) >= 1
    /\ Returned(scalar_result) /\ Returned(simd_result) /\ Returned(auto_result)
    /\ scalar_result.msg.message_type.str = << "D" >>
    /\ ~auto_result.msg.valid

\* the offset at which the field holding offset i of t starts
FieldStart(t, i) ==
    Max({ 0 } \cup { j + 1 : j \in { k \in 0 .. i - 1 : t[k + 1] = "|" } })

\* offset i of t lies in the key text of its field, before the first '=',
\* the key text starts with a digit, and a non-digit byte of the key text
\* lies at or before i
TrailingKeyByte(t, i) ==
    /\ t[FieldStart(t, i) + 1] \in Digits
    /\ \A j \in FieldStart(t, i) .. i : t[j + 1] \notin { "=", "|" }
    /\ \E j \in FieldStart(t, i) .. i : t[j + 1] \notin Digits
    /\ \E k \in i + 1 .. Len(t) - 1 :
           /\ t[k + 1] = "="
           /\ \A j \in i + 1 .. k - 1 : t[j + 1] # "|"

\* the offsets of t that are kept when every key text is cut down to its
\* leading digits
KeptOffsets(t) == { i \in 0 .. Len(t) - 1 : ~TrailingKeyByte(t, i) }

\* t with every key text that starts with digits cut down to those digits
DigitKeys(t) ==
    [ n \in 1 .. Cardinality(KeptOffsets(t)) |->
        t[1 + CHOOSE i \in KeptOffsets(t) :
                  Cardinality({ j \in KeptOffsets(t) : j < i }) = n - 1] ]

\* the returned call was given a text in which some key text starts with
\* digits and goes on with other bytes
TrailingKeyBytes(t) == KeptOffsets(t) # 0 .. Len(t) - 1

\* C28: a field whose key text starts with the digits of a key and goes on
\* with non-digit bytes is not dropped: split_field accepts it with the
\* number its leading digits denote and the same value text as the field
\* with the digits alone as its key, and an entry point fills the slots from
\* a message with such fields exactly as from the message with the digits
\* alone as keys ("35x=D" acts as "35=D").
C28_NumericKeyPrefix ==
    /\ ( /\ call.fn = "split_field" /\ call.status = "returned"
         /\ TrailingKeyBytes(call.field.str) )
        => /\ call.result.ok /\ ~call.result.raised
           /\ call.result.tag
                  = Decimal(SubSeq(call.field.str, 1,
                                   Min({ i \in 0 .. Len(call.field.str) - 1 :
                                           call.field.str[i + 1] \notin Digits })))
           /\ call.result.tag = split_field([ off |-> call.field.off,
                                              str |-> DigitKeys(call.field.str) ]).tag
           /\ call.result.value.str
                  = split_field([ off |-> call.field.off,
                                  str |-> DigitKeys(call.field.str) ]).value.str
    /\ ( /\ call.fn \in { "parse_scalar", "parse_simd", "parse_auto" }
         /\ call.status = "returned"
         /\ TrailingKeyBytes(call.str) )
        => /\ Returned(call.result)
           /\ Len(call.result.fields) = Len(parse_scalar(DigitKeys(call.str)).fields)
           /\ Contents(call.result.msg) = Contents(parse_scalar(DigitKeys(call.str)).msg)

\* C28: split_field has returned key 35 and the value "D" for "35x=D"
C28_Witness ==
    /\ call.fn = "split_field" /\ call.status = "returned"
    /\ call.field.str = << "3", "5", "x", "=", "D" >>
    /\ DigitKeys(call.field.str) = << "3", "5", "=", "D" >>
    /\ call.result.ok /\ call.result.tag = MessageType
    /\ call.result.value.str = << "D" >>

\* C28: an entry point has returned a valid record with message type "D" and
\* symbol "A" for the text "35x=D|55 =A|"
C28_RecordReached ==
    /\ call.fn \in { "parse_scalar", "parse_simd", "parse_auto" }
    /\ call.status = "returned"
    /\ call.str = << "3", "5", "x", "=", "D", "|", "5", "5", " ", "=", "A", "|" >>
    /\ DigitKeys(call.str) = << "3", "5", "=", "D", "|", "5", "5", "=", "A", "|" >>
    /\ call.result.msg.message_type.str = << "D" >>
    /\ call.result.msg.symbol.str = << "A" >>
    /\ call.result.msg.valid

\* C28: an entry point has returned side 2 for the field "54.0=2"
C28_SideReached ==
    /\ call.fn \in { "parse_scalar", "parse_simd", "parse_auto" }
    /\ call.status = "returned"
    /\ Len(call.str) = 18
    /\ TrailingKeyBytes(call.str)
    /\ call.result.msg.side = 2

\* the well-formed fields of data with key k, and those with a non-empty value
FieldsWithKey(data, k) == { f \in KeyedFields(data) : f.key = k }

FilledFieldsWithKey(data, k) == { f \in FieldsWithKey(data, k) : f.value.str # << >> }

\* the last field of data with key k: the one that starts furthest right
LastWithKey(data, k) ==
    CHOOSE f \in FieldsWithKey(data, k) : \A g \in FieldsWithKey(data, k) : g.b <= f.b

\* keys 35 and 55 both occur in data with a non-empty value, and the last
\* field of key k has an empty value
EmptiedLater(data, k) ==
    /\ FilledFieldsWithKey(data, MessageType) # {}
    /\ FilledFieldsWithKey(data, Symbol) # {}
    /\ LastWithKey(data, k).value.str = << >>

\* C29: validity is decided from the final slot contents only: when keys 35
\* and 55 both occurred with non-empty values and the last accepted field of
\* key 35 or 55 has an empty value ("35=D|55=AAPL|35=|"), the slot holds the
\* empty slice behind that field's '=' and the returned record is invalid.
C29_LaterEmptyValueInvalidates ==
    ( /\ call.fn \in { "parse_scalar", "parse_simd", "parse_auto" }
      /\ call.status = "returned" )
        => /\ EmptiedLater(call.str, MessageType)
                => /\ Returned(call.result)
                   /\ call.result.msg.message_type
                          = [ off |-> LastWithKey(call.str, MessageType).e, str |-> << >> ]
                   /\ ~call.result.msg.valid
           /\ EmptiedLater(call.str, Symbol)
                => /\ Returned(call.result)
                   /\ call.result.msg.symbol
                          = [ off |-> LastWithKey(call.str, Symbol).e, str |-> << >> ]
                   /\ ~call.result.msg.valid

\* C29: an entry point has returned an invalid record with an empty message
\* type and the symbol "A" for "35=D|55=A|35=|"
C29_Witness ==
    /\ call.fn \in { "parse_scalar", "parse_simd", "parse_auto" }
    /\ call.status = "returned"
    /\ call.str = << "3", "5", "=", "D", "|", "5", "5", "=", "A", "|", "3", "5", "=", "|" >>
    /\ EmptiedLater(call.str, MessageType)
    /\ call.result.msg.message_type.str = << >>
    /\ call.result.msg.symbol.str = << "A" >>
    /\ ~call.result.msg.valid

\* C29: an entry point has returned an invalid record with an empty symbol
\* for "35=D|55=A|55=", the text ending in the empty value
C29_SymbolEmptiedReached ==
    /\ call.fn \in { "parse_scalar", "parse_simd", "parse_auto" }
    /\ call.status = "returned"
    /\ Len(call.str) = 13
    /\ EmptiedLater(call.str, Symbol)
    /\ call.result.msg.symbol = [ off |-> 13, str |-> << >> ]
    /\ ~call.result.msg.valid

\* C29: an entry point has returned a valid record for "35=|55=A|35=D|",
\* where the empty value comes first
C29_EarlierEmptyReached ==
    /\ call.fn \in { "parse_scalar", "parse_simd", "parse_auto" }
    /\ call.status = "returned"
    /\ call.str = << "3", "5", "=", "|", "5", "5", "=", "A", "|", "3", "5", "=", "D", "|" >>
    /\ ~EmptiedLater(call.str, MessageType)
    /\ call.result.msg.valid

\* a returned parse_int call on a text whose leading match denotes a value
\* outside [-2147483648, 2147483647]
OutOfRangeCall ==
    /\ call.fn = "parse_int" /\ call.status = "returned"
    /\ HasLeadingMatch(call.str)
    /\ ~MatchInRange(call.str)

RECURSIVE Accumulated(_, _)
\* the digits ds accumulated onto acc as acc * 10 + digit modulo 2^32, read
\* as two's complement; the halves keep every intermediate value in range
Accumulated(ds, acc) ==
    IF ds = << >> THEN acc
    ELSE CHOOSE r \in
             { Accumulated(Tail(ds),
                   (IF high >= 32768 THEN high - 65536 ELSE high) * 65536 + (low % 65536)) :
               low \in { (acc % 65536) * 10 + DigitVal(Head(ds)) },
               high \in { ((acc \div 65536) * 10
                              + (((acc % 65536) * 10 + DigitVal(Head(ds))) \div 65536))
                          % 65536 } } : TRUE

C30_WrappedReached ==
    /\ OutOfRangeCall
    /\ call.str = << "2", "1", "4", "7", "4", "8", "3", "6", "4", "8" >>
    /\ call.result = INT32_MIN

\* C30: parse_int has returned another value than the wrapped one for
\* "2147483648"
C30_OtherReached ==
    /\ OutOfRangeCall
    /\ call.str = << "2", "1", "4", "7", "4", "8", "3", "6", "4", "8" >>
    /\ call.result = INT32_MAX

====
